---- MODULE Spec2Model ----
(***************************************************************************)
(* Model of the key-value store of shimanekb/project1-C.                   *)
(*                                                                         *)
(* The repository holds the storage engine in two revisions.  The module   *)
(* models the offset-list revision (src/unnamed/part_003, package kvstore) *)
(* under the specification Spec: data log, partial-key index, value cache, *)
(* LogFlusher (FlushLog), IndexFlusher (FlushIndex), recovery (LoadIndex); *)
(* LiveSpec adds the fairness of the workers.  The single-offset revision  *)
(* (src/store/kvstore.go) is modelled under the specification SpecStore;   *)
(* SpecRecovery constructs it on data logs with malformed records.         *)
(* The package index (LocalDataLog, LocalIndex; src/index and part_000)    *)
(* is modelled under the specification SpecIndex.                          *)
(* The data log is a sequence of bytes, so that an offset that does not    *)
(* address the first byte of a record reads what the csv reader would read *)
(* there.                                                                  *)
(***************************************************************************)
EXTENDS Integers, Sequences, FiniteSets, TLC

\* ------------------------------------------------------------------ bounds
\* Put/Del calls over the whole history (all runs of the store).
MaxCmds == 3
\* Constructions of the store on the same storage directory.
MaxRuns == 2
\* Scaled flush thresholds (the source has 10 and 100).
LogThreshold == 2
IndexThreshold == 2

\* --------------------------------------------------------------- constants
LOG_FLUSH_THRESHOLD == LogThreshold
INDEX_FLUSH_THRESHOLD == IndexThreshold
PUT_COMMAND == "put"
DEL_COMMAND == "del"
\* getPartialKey: keys longer than PartialMax are cut to PartialLen bytes.
PartialMax == 16
PartialLen == 15

Rep(c, n) == [i \in 1..n |-> c]

\* Keys are byte sequences.  KeyS has exactly 15 bytes and is its own
\* partial key; KeyX has 17 bytes and its partial key is KeyS, so the two
\* keys share one bucket of the index.
KeyS == Rep("p", PartialLen)
KeyX == KeyS \o <<"x", "x">>
Keys == {KeyS, KeyX}
Values == {<<"v">>, <<"w">>}
Empty == <<>>

\* ----------------------------------------------------------- pure helpers
getPartialKey(key) ==
    IF Len(key) > PartialMax THEN SubSeq(key, 1, PartialLen) ELSE key

\* SimpleCache / LruCache: a map from key to value.  The value cache has
\* capacity 1000, which no run of the model reaches, so nothing is evicted.
CacheGetOk(cache, key) == key \in DOMAIN cache
\* Mutant of CacheAdd: the entry is not stored.
CacheAdd_NoStore(cache, key, value) == cache
CacheAdd(cache, key, value) ==
    [x \in (DOMAIN cache) \cup {key} |-> IF x = key THEN value ELSE cache[x]]
CacheRemove(cache, key) ==
    [x \in (DOMAIN cache) \ {key} |-> cache[x]]
EmptyCache == [x \in {} |-> Empty]

\* fmt.Sprintf("%s,%s,\n", key, value)
PutLine(key, value) == key \o <<",">> \o value \o <<",", "\n">>

\* Mutant of WritePut: the offset returned is the number of bytes written.
WritePut_BytesWritten(file, key, value) ==
    [file |-> file \o PutLine(key, value), offset |-> Len(PutLine(key, value))]

\* Mutant of WritePut: the offset returned is the file size after the write.
WritePut_FileSize(file, key, value) ==
    [file |-> file \o PutLine(key, value),
     offset |-> Len(file \o PutLine(key, value))]

\* WritePut appends the line and returns file size minus bytes written.
WritePut(file, key, value) ==
    LET line == PutLine(key, value)
        after == file \o line
    IN  [file |-> after, offset |-> Len(after) - Len(line)]

\* encoding/csv: blank lines are skipped, a record ends at the newline,
\* fields are separated by commas.
\* First position at or after pos that does not hold a newline.
SkipBlank(file, pos) ==
    LET stops == {p \in pos..Len(file) : file[p] # "\n"}
    IN  IF stops = {} THEN IF pos > Len(file) THEN pos ELSE Len(file) + 1
        ELSE CHOOSE p \in stops : \A q \in stops : p <= q

\* First position at or after pos that holds a newline (or the end of file).
LineEnd(file, pos) ==
    LET stops == {p \in pos..Len(file) : file[p] = "\n"}
    IN  IF stops = {} THEN IF pos > Len(file) THEN pos ELSE Len(file) + 1
        ELSE CHOOSE p \in stops : \A q \in stops : p <= q

\* The fields of a line: the bytes between its commas.
SplitFields(line) ==
    LET commas == {i \in 1..Len(line) : line[i] = ","}
        n == Cardinality(commas) + 1
        Cut(k) == IF k = 0 THEN 0
                  ELSE IF k = n THEN Len(line) + 1
                  ELSE CHOOSE i \in commas :
                           Cardinality({j \in commas : j <= i}) = k
    IN  [k \in 1..n |-> SubSeq(line, Cut(k - 1) + 1, Cut(k) - 1)]

\* One csv.Reader.Read() starting at byte offset `offset` (0-based).
\* eof: no record before end of file.  next: offset after the record.
CsvRead(file, offset) ==
    LET start == SkipBlank(file, offset + 1)
    IN  IF start > Len(file)
        THEN [eof |-> TRUE, record |-> <<>>, next |-> Len(file)]
        ELSE LET e == LineEnd(file, start)
             IN  [eof |-> FALSE,
                  record |-> SplitFields(SubSeq(file, start, e - 1)),
                  next |-> IF e > Len(file) THEN Len(file) ELSE e]

\* ReadKvItem: open, seek, read one record, key = record[0], value = record[1].
ReadKvItem(file, offset) ==
    LET r == CsvRead(file, offset)
    IN  IF r.eof \/ Len(r.record) < 2
        THEN [err |-> TRUE, key |-> Empty, value |-> Empty]
        ELSE [err |-> FALSE, key |-> r.record[1], value |-> r.record[2]]

\* RemoveIndexItem: keeps the offsets of the bucket whose record has another key.
RemoveIndexItem(cache, file, key) ==
    LET partialKey == getPartialKey(key)
    IN  IF partialKey # Empty /\ CacheGetOk(cache, partialKey)
        THEN CacheAdd(cache, partialKey,
                 SelectSeq(cache[partialKey],
                           LAMBDA off : ReadKvItem(file, off).key # key))
        ELSE cache

\* RemoveIndexItem calls log.Fatal when a log read fails.
RemoveIndexItemFatal(cache, file, key) ==
    LET partialKey == getPartialKey(key)
    IN  /\ partialKey # Empty
        /\ CacheGetOk(cache, partialKey)
        /\ \E i \in 1..Len(cache[partialKey]) :
               ReadKvItem(file, cache[partialKey][i]).err

AddIndexItem(cache, file, key, offset) ==
    LET partialKey == getPartialKey(key)
    IN  IF CacheGetOk(cache, partialKey)
        THEN LET removed == RemoveIndexItem(cache, file, key)
             IN  CacheAdd(removed, partialKey, Append(removed[partialKey], offset))
        ELSE CacheAdd(cache, partialKey, <<offset>>)

\* ReadGet: first offset of the list whose record has the full key.
RECURSIVE ReadGet(_, _, _)
ReadGet(file, key, offsets) ==
    IF offsets = <<>> THEN [ok |-> FALSE, value |-> Empty]
    ELSE LET item == ReadKvItem(file, Head(offsets))
         IN  IF item.err THEN [ok |-> FALSE, value |-> Empty]
             ELSE IF item.key = key THEN [ok |-> TRUE, value |-> item.value]
             ELSE ReadGet(file, key, Tail(offsets))

\* A record of the data log has three csv fields: key, value and the field
\* after the last comma.
RecordFields == 3

\* ------------------------------------------------------- checkpoint file
\* index_file.json / index_swap_file.json as the Index struct that
\* json.Unmarshal decodes from it: lastOffset and, per bucket key, the
\* offsets.  A file without bytes decodes to the zero Index.  whole tells a
\* file that holds one complete marshalled Index from a file without bytes.
NoFile ==
    [exists |-> FALSE, whole |-> FALSE, lastOffset |-> 0, keyOffsets |-> EmptyCache]
EmptyFile ==
    [exists |-> TRUE, whole |-> FALSE, lastOffset |-> 0, keyOffsets |-> EmptyCache]

fileExists(f) == f.exists

\* WriteIndex: one KeyOffset per key of the index cache, then WriteFile.
WriteIndex(maxOffset, indexCache) ==
    [exists |-> TRUE, whole |-> TRUE, lastOffset |-> maxOffset,
     keyOffsets |-> [key \in (DOMAIN indexCache) \ {Empty} |-> indexCache[key]]]

\* LoadIndexJson, inner loop: AddIndexItem(cache, kv.Key, off) per offset.
RECURSIVE AddOffsets(_, _, _, _)
AddOffsets(cache, file, key, offsets) ==
    IF offsets = <<>> THEN cache
    ELSE AddOffsets(AddIndexItem(cache, file, key, Head(offsets)),
                    file, key, Tail(offsets))

RECURSIVE AddOffsetsFatal(_, _, _, _)
AddOffsetsFatal(cache, file, key, offsets) ==
    IF offsets = <<>> THEN FALSE
    ELSE \/ RemoveIndexItemFatal(cache, file, key)
         \/ AddOffsetsFatal(AddIndexItem(cache, file, key, Head(offsets)),
                            file, key, Tail(offsets))

\* LoadIndexJson, outer loop over index.KeyOffsets.  Each entry touches only
\* the bucket of its own key, so the order of the entries does not matter.
RECURSIVE AddKeyOffsets(_, _, _, _)
AddKeyOffsets(cache, file, keyOffsets, keys) ==
    IF keys = {} THEN cache
    ELSE LET key == CHOOSE k \in keys : TRUE
         IN  AddKeyOffsets(AddOffsets(cache, file, key, keyOffsets[key]),
                           file, keyOffsets, keys \ {key})

\* LoadIndexJson opens the file with O_CREATE, decodes it and adds every
\* offset of it to the cache it is given.
LoadIndexJson(cache, file, indexFile) ==
    [cache |-> AddKeyOffsets(cache, file, indexFile.keyOffsets,
                             DOMAIN indexFile.keyOffsets),
     lastLineOffset |-> indexFile.lastOffset,
     fatal |-> \E key \in DOMAIN indexFile.keyOffsets :
                   AddOffsetsFatal(cache, file, key, indexFile.keyOffsets[key]),
     indexFile |-> IF indexFile.exists THEN indexFile ELSE EmptyFile]

\* LoadIndexData: the csv reader reads from readPos, buffer.ReadBytes('\n')
\* takes the lines from bufPos, and position counts from 0.
RECURSIVE ReplayLog(_, _, _, _, _)
ReplayLog(cache, file, readPos, bufPos, position) ==
    LET r == CsvRead(file, readPos)
    IN  IF r.eof THEN [cache |-> cache, position |-> position, fatal |-> FALSE]
        ELSE IF Len(r.record) < 3
        THEN [cache |-> cache, position |-> position, fatal |-> TRUE]
        ELSE LET key == r.record[1]
                 value == r.record[2]
                 tomb == r.record[3]
                 e == LineEnd(file, bufPos + 1)
                 bufNext == IF e > Len(file) THEN Len(file) ELSE e
                 lineBytes == bufNext - bufPos
             IN  IF value # tomb
                 THEN IF CacheGetOk(cache, getPartialKey(key))
                         /\ RemoveIndexItemFatal(cache, file, key)
                      THEN [cache |-> cache, position |-> position, fatal |-> TRUE]
                      ELSE ReplayLog(AddIndexItem(cache, file, key, position),
                                     file, r.next, bufNext, position + lineBytes)
                 ELSE ReplayLog(CacheRemove(cache, key),
                                file, r.next, bufNext, position + lineBytes)

LoadIndexData(startingOffset, cache, file) ==
    ReplayLog(cache, file, startingOffset, startingOffset, 0)

\* LoadIndex reads lastOffset from the checkpoint (the key offsets of the
\* checkpoint are decoded and dropped) and replays the log from there.
LoadIndex(cache, file, indexFile) ==
    LET lastLineOffset == IF fileExists(indexFile) THEN indexFile.lastOffset ELSE 0
    IN  LoadIndexData(lastLineOffset, cache, file)

\* ======================================================= the index package
\* package index: LocalDataLog (a csv file of "key,value,size," lines) and
\* LocalIndex (partial key -> index items, each the offset and value size of
\* one record of the data log).  The repository holds two revisions of each
\* file: src/index/datalog.go and the one of part_003 for LocalDataLog,
\* src/index/index.go and the one of part_000 for LocalIndex.  A build holds
\* one revision of each; the specification SpecIndex covers the four builds.
MaxLogItems == 3
MaxIndexCalls == 1
MaxLoadSteps == 4

KeyT == <<"t">>
IndexKeys == {KeyS, KeyX, KeyT}
\* The log items a client adds: two values for one key, a key of the same
\* bucket, a key of another bucket and an empty value.
LogItems ==
    {[key |-> KeyS, value |-> <<"v">>], [key |-> KeyS, value |-> <<"w">>],
     [key |-> KeyX, value |-> <<"v">>], [key |-> KeyT, value |-> <<"v">>],
     [key |-> KeyT, value |-> Empty]}

DataLogRevisions == {"datalog.go", "part_003"}
IndexRevisions == {"index.go", "part_000"}
Revisions == [index : IndexRevisions, dataLog : DataLogRevisions]
HeadRevision == [index |-> "index.go", dataLog |-> "datalog.go"]

\* fmt %d and strconv.ParseInt of a size, base 10.
Digits == <<"0", "1", "2", "3", "4", "5", "6", "7", "8", "9">>
Base == 10

RECURSIVE FormatInt(_)
FormatInt(n) ==
    IF n < Base THEN <<Digits[n + 1]>>
    ELSE FormatInt(n \div Base) \o <<Digits[(n % Base) + 1]>>

DigitValue(c) == (CHOOSE d \in 1..Base : Digits[d] = c) - 1

RECURSIVE ParseDigits(_, _)
ParseDigits(s, acc) ==
    IF s = <<>> THEN acc
    ELSE ParseDigits(Tail(s), acc * Base + DigitValue(Head(s)))

\* strconv.ParseInt(s, 10, 64): an error for no digits or another byte.
ParseInt(s) ==
    IF s = <<>> \/ \E i \in 1..Len(s) : \A d \in 1..Base : Digits[d] # s[i]
    THEN [err |-> TRUE, n |-> 0]
    ELSE [err |-> FALSE, n |-> ParseDigits(s, 0)]

\* LogItem; err is "nil", "EOF" (io.EOF), "error" (any other error) or
\* "panic" (record[i] out of range).  NoLogOffset stands for the offset
\* field that LogItem lacks in src/index/datalog.go.
NoLogOffset == -1
LogItem(key, value, size, offset) ==
    [err |-> "nil", key |-> key, value |-> value, size |-> size,
     offset |-> offset]
NoLogItem(err) ==
    [err |-> err, key |-> Empty, value |-> Empty, size |-> 0,
     offset |-> NoLogOffset]

\* NewLogItem: the size is the number of bytes of the value.
NewLogItem(key, value, offset) == LogItem(key, value, Len(value), offset)

\* From csv.NewReader on: one record, key, value and the parsed size.
ReadRecord(file, offset, itemOffset) ==
    LET r == CsvRead(file, offset)
    IN  IF r.eof THEN NoLogItem("EOF")
        ELSE IF Len(r.record) < RecordFields THEN NoLogItem("panic")
        ELSE LET size == ParseInt(r.record[3])
             IN  IF size.err THEN NoLogItem("error")
                 ELSE [NewLogItem(r.record[1], r.record[2], itemOffset)
                           EXCEPT !.size = size.n]

\* ReadLogItem of src/index/datalog.go: seek and read; the item has no offset.
DataLogReadLogItem(file, offset) == ReadRecord(file, offset, NoLogOffset)

\* ReadLogItem of part_003: io.EOF when stat.Size() >= offset, else as above,
\* and the item carries the offset.
ReadLogItem(file, offset) ==
    IF Len(file) >= offset THEN NoLogItem("EOF")
    ELSE ReadRecord(file, offset, offset)

\* The ReadLogItem of the build.
LocalDataLogRead(rev, file, offset) ==
    IF rev.dataLog = "part_003" THEN ReadLogItem(file, offset)
    ELSE DataLogReadLogItem(file, offset)

\* fmt.Sprintf("%s,%s,%d,\n", key, value, size)
LogLine(key, value, size) ==
    key \o <<",">> \o value \o <<",">> \o FormatInt(size) \o <<",", "\n">>

\* AddLogItem appends the line and returns file size minus bytes written.
AddLogItem(file, logItem) ==
    LET line == LogLine(logItem.key, logItem.value, logItem.size)
        after == file \o line
    IN  [file |-> after, offset |-> Len(after) - Len(line)]

NewIndexItem(key, offset, size) ==
    [partialKey |-> getPartialKey(key), offset |-> offset, size |-> size]

\* i.indexItems[partialKey]: the nil slice when the map lacks the key.
Bucket(items, partialKey) ==
    IF partialKey \in DOMAIN items THEN items[partialKey] ELSE <<>>

\* LocalIndex.Get: the bucket of the partial key and whether the map has it.
LocalIndexGet(items, key) ==
    LET partialKey == getPartialKey(key)
    IN  IF partialKey \in DOMAIN items
        THEN [ok |-> TRUE, indexItems |-> items[partialKey]]
        ELSE [ok |-> FALSE, indexItems |-> Bucket(items, partialKey)]

\* LocalIndex.Put of part_000 appends the item to its bucket and stores the
\* bucket.
PutAppend(items, indexItem) ==
    CacheAdd(items, indexItem.partialKey,
             Append(Bucket(items, indexItem.partialKey), indexItem))

\* LocalIndex.Put of src/index/index.go: append(indexItems) appends nothing
\* to the local slice, and the map is not assigned.
PutNothing(items, indexItem) == items

\* The Put of the build.
LocalIndexPut(rev, items, indexItem) ==
    IF rev.index = "part_000" THEN PutAppend(items, indexItem)
    ELSE PutNothing(items, indexItem)

\* The loop of LocalIndex.Del over the slice (array) of the bucket, from
\* position index on: a log read error breaks the loop; a matching item is
\* overwritten with the last element of the slice and the bucket becomes the
\* slice without its last element (stored); the slice itself is never cut.
RECURSIVE DelLoop(_, _, _, _, _, _)
DelLoop(rev, file, key, array, index, stored) ==
    IF index > Len(array) THEN [array |-> array, stored |-> stored]
    ELSE LET logItem == LocalDataLogRead(rev, file, array[index].offset)
         IN  IF logItem.err # "nil" THEN [array |-> array, stored |-> stored]
             ELSE IF logItem.key = key
             THEN DelLoop(rev, file, key,
                          [array EXCEPT ![index] = array[Len(array)]],
                          index + 1, TRUE)
             ELSE DelLoop(rev, file, key, array, index + 1, stored)

\* LocalIndex.Del: the map after the call.  The bucket shares its array
\* with the slice of the loop.
LocalIndexDel(rev, items, file, key) ==
    LET got == LocalIndexGet(items, key)
        end == DelLoop(rev, file, key, got.indexItems, 1, FALSE)
    IN  IF ~got.ok THEN items
        ELSE IF end.stored
        THEN CacheAdd(items, getPartialKey(key),
                      SubSeq(end.array, 1, Len(end.array) - 1))
        ELSE items

\* Del read a record of the bucket with an error (and left the loop).
RECURSIVE DelReadFailed(_, _, _, _, _)
DelReadFailed(rev, file, key, array, index) ==
    IF index > Len(array) THEN FALSE
    ELSE LET logItem == LocalDataLogRead(rev, file, array[index].offset)
         IN  IF logItem.err # "nil" THEN TRUE
             ELSE DelReadFailed(rev, file, key,
                      IF logItem.key = key
                      THEN [array EXCEPT ![index] = array[Len(array)]]
                      ELSE array,
                      index + 1)

\* getLastIndex: the largest offset of the index, 0 for an empty index.
getLastIndex(items) ==
    LET offsets == UNION {{items[pk][i].offset : i \in 1..Len(items[pk])} :
                              pk \in DOMAIN items}
    IN  IF offsets = {} THEN 0
        ELSE CHOOSE o \in offsets : \A p \in offsets : p <= o

\* The loop of LocalIndex.Load from offset on: io.EOF ends it, another error
\* returns, a record becomes an item at the end of its bucket and the next
\* read is at item.offset + item.size.  steps bounds the iterations; done
\* is FALSE when the loop is still running after them.
RECURSIVE LoadLoop(_, _, _, _)
LoadLoop(items, file, offset, steps) ==
    LET logItem == ReadLogItem(file, offset)
        item == NewIndexItem(logItem.key, logItem.offset, logItem.size)
    IN  IF logItem.err = "EOF" THEN [items |-> items, done |-> TRUE, err |-> "nil"]
        ELSE IF logItem.err # "nil"
        THEN [items |-> items, done |-> TRUE, err |-> logItem.err]
        ELSE IF steps = 0 THEN [items |-> items, done |-> FALSE, err |-> "nil"]
        ELSE LoadLoop(CacheAdd(items, item.partialKey,
                          Append(Bucket(items, item.partialKey), item)),
                      file, item.offset + item.size, steps - 1)

\* LocalIndex.Load
LocalIndexLoad(items, file) ==
    LoadLoop(items, file, getLastIndex(items), MaxLoadSteps)

\* ------------------------------------------------------------------ state
VARIABLES
    log,                 \* storage/data_records.csv, a sequence of bytes
    ckpt,                \* storage/index_file.json
    swap,                \* storage/index_swap_file.json
    Cache,               \* KvStore.Cache, the value cache
    IndexCache,          \* KvStore.IndexCache, partial key -> offsets
    logBufferChannel,    \* chan Command, capacity LOG_FLUSH_THRESHOLD
    logClosed,           \* close(k.logBufferChannel) has run
    indexBufferChannel,  \* chan KvPair, capacity INDEX_FLUSH_THRESHOLD
    indexClosed,         \* close(indexBuffer) has run
    flushLock,           \* flushLock is write-locked
    pcEng,               \* caller thread: idle, send, wait, closed
    pending,             \* the Command the caller thread is sending
    newOffsets,          \* Del's RemoveIndexItem: the bucket it will store
    pcLog,               \* FlushLog: recv, puts, dels, done
    commands,            \* FlushLog's batch
    ci,                  \* FlushLog's position in the batch
    logOk,               \* ok of FlushLog's last receive
    pcIdx,               \* FlushIndex: recv, load, write, rename, ack, done
    pairs,               \* FlushIndex's batch
    idxOk,               \* ok of FlushIndex's last receive
    lastOffset,          \* FlushIndex's local lastOffset
    exited,              \* log.Fatal or a panic has ended the process
    runs,                \* constructions of the store so far
    budget,              \* Put/Del calls left
    nextId,              \* history: number of the next command
    appended,            \* history: command numbers in log-append order
    model,               \* history: per key, the last Put or Del call
    lastCall,            \* history: the last Put or Del call of this run
    written,             \* history: per key, the values ever Put for it
    enqueued,            \* history: the commands enqueued, in call order
    appends,             \* history: the appends to the data log, in write order
    indexCacheCopy,      \* src/store/kvstore.go: FlushIndex's own index cache
    dataLogFile,         \* package index: the file of LocalDataLog
    indexItems,          \* package index: LocalIndex.indexItems
    revision,            \* package index: the revisions the build holds
    added,               \* history: the log items added, with their offsets
    indexCall,           \* history: the last call on the package index
    indexCalls           \* history: Del and Load calls on the index

disk == <<log, ckpt, swap>>
memory == <<Cache, IndexCache>>
channels == <<logBufferChannel, logClosed, indexBufferChannel, indexClosed>>
engine == <<pcEng, pending, newOffsets>>
logFlusher == <<pcLog, commands, ci, logOk>>
indexFlusher == <<pcIdx, pairs, idxOk, lastOffset>>
history == <<nextId, appended, model, lastCall, written, enqueued, appends>>
indexPackage == <<dataLogFile, indexItems, revision, added, indexCall,
                  indexCalls>>
store == <<disk, memory, channels, flushLock, engine, logFlusher, indexFlusher,
           exited, runs, budget, history, indexCacheCopy>>
vars == <<store, indexPackage>>

Command(type, key, value, id) ==
    [Type |-> type, Key |-> key, Value |-> value, id |-> id]
ZeroCommand == Command("", Empty, Empty, 0)
KvPair(key, tomb, size, offset) ==
    [Key |-> key, Tomb |-> tomb, Size |-> size, Offset |-> offset]
ZeroKvPair == KvPair(Empty, FALSE, 0, 0)

NoCall == [st |-> "none", v |-> Empty]

\* No RemoveIndexItem of a Del call is between its cache.Get and its cache.Add.
NoRemove == [key |-> Empty, ok |-> FALSE, offsets |-> <<>>]

\* history: the command with the run of the store that enqueued it.
Enqueued(command) ==
    Append(enqueued, [Type |-> command.Type, Key |-> command.Key,
                      Value |-> command.Value, id |-> command.id, run |-> runs])

\* history: an append by `by` (a Put call or FlushLog) for the command `id`
\* has written its record at byte `at` of the data log; the offset is
\* NoOffset until the append has returned one.
NoOffset == -1
Wrote(by, id, at, offset) ==
    Append(appends, [by |-> by, id |-> id, at |-> at, offset |-> offset])

\* history: the append of `by` that has not returned yet returns offset.
Returned(by, offset) ==
    LET open == {i \in 1..Len(appends) :
                    appends[i].by = by /\ appends[i].offset = NoOffset}
        last == CHOOSE i \in open : \A j \in open : j <= i
    IN  [appends EXCEPT ![last].offset = offset]

\* ---------------------------------------------------- calls on the package
NoIndexItem == NewIndexItem(Empty, 0, 0)

\* history: a call on the package, the index before it and what it returned.
IndexCall(op, key, item, offset, before, logItem, got, done) ==
    [op |-> op, key |-> key, item |-> item, offset |-> offset,
     before |-> before, logItem |-> logItem, got |-> got, done |-> done]
NoGet == [ok |-> FALSE, indexItems |-> <<>>]
NoIndexCall ==
    IndexCall("none", Empty, NoIndexItem, 0, EmptyCache, NoLogItem("nil"),
              NoGet, TRUE)

\* NewLocalDataLog on a new file and NewLocalIndex over it.
NewLocalIndex ==
    /\ dataLogFile = <<>>
    /\ indexItems = EmptyCache
    /\ added = <<>>
    /\ indexCall = NoIndexCall
    /\ indexCalls = 0

\* NewKvStore: fresh caches, LoadIndex, fresh channels, both workers started.
NewKvStore ==
    LET loaded == LoadIndex(EmptyCache, log, ckpt)
    IN  /\ Cache' = EmptyCache
        /\ IndexCache' = loaded.cache
        /\ exited' = loaded.fatal
        /\ logBufferChannel' = <<>>
        /\ logClosed' = FALSE
        /\ indexBufferChannel' = <<>>
        /\ indexClosed' = FALSE
        /\ flushLock' = FALSE
        /\ pcEng' = "idle"
        /\ pending' = ZeroCommand
        /\ newOffsets' = NoRemove
        /\ pcLog' = "recv"
        /\ commands' = <<>>
        /\ ci' = 1
        /\ logOk' = TRUE
        /\ pcIdx' = "recv"
        /\ pairs' = <<>>
        /\ idxOk' = TRUE
        /\ lastOffset' = 0

\* The store constructed on an empty storage directory.
EmptyStorage ==
    /\ log = <<>>
    /\ ckpt = NoFile
    /\ swap = NoFile
    /\ Cache = EmptyCache
    /\ IndexCache = EmptyCache
    /\ logBufferChannel = <<>>
    /\ logClosed = FALSE
    /\ indexBufferChannel = <<>>
    /\ indexClosed = FALSE
    /\ flushLock = FALSE
    /\ pcEng = "idle"
    /\ pending = ZeroCommand
    /\ newOffsets = NoRemove
    /\ pcLog = "recv"
    /\ commands = <<>>
    /\ ci = 1
    /\ logOk = TRUE
    /\ pcIdx = "recv"
    /\ pairs = <<>>
    /\ idxOk = TRUE
    /\ lastOffset = 0
    /\ exited = FALSE
    /\ runs = 1
    /\ budget = MaxCmds
    /\ nextId = 1
    /\ appended = <<>>
    /\ model = [k \in Keys |-> NoCall]
    /\ lastCall = ZeroCommand
    /\ written = [k \in Keys |-> {}]
    /\ enqueued = <<>>
    /\ appends = <<>>
    /\ indexCacheCopy = EmptyCache

\* The store on an empty storage directory; the package index is not used
\* by the store and stays as constructed.
Init ==
    /\ EmptyStorage
    /\ NewLocalIndex
    /\ revision = HeadRevision

\* ------------------------------------------------------------ caller thread
\* k.logBufferChannel <- command: the command is enqueued at once when the
\* channel has room; otherwise the caller blocks in the send (see Send).
Enqueue(command) ==
    IF Len(logBufferChannel) < LOG_FLUSH_THRESHOLD
    THEN /\ logBufferChannel' = Append(logBufferChannel, command)
         /\ UNCHANGED engine
    ELSE /\ pending' = command
         /\ pcEng' = "send"
         /\ UNCHANGED <<logBufferChannel, newOffsets>>

\* KvStore.Put: Cache.Add, then the channel send.
Put(key, value) ==
    /\ ~exited /\ pcEng = "idle" /\ budget > 0
    /\ Cache' = CacheAdd(Cache, key, value)
    /\ Enqueue(Command(PUT_COMMAND, key, value, nextId))
    /\ budget' = budget - 1
    /\ nextId' = nextId + 1
    /\ model' = [model EXCEPT ![key] = [st |-> "put", v |-> value]]
    /\ lastCall' = Command(PUT_COMMAND, key, value, nextId)
    /\ written' = [written EXCEPT ![key] = @ \cup {value}]
    /\ enqueued' = Enqueued(Command(PUT_COMMAND, key, value, nextId))
    /\ UNCHANGED <<indexCacheCopy, disk, IndexCache, logClosed, indexBufferChannel,
                   indexClosed, flushLock, logFlusher, indexFlusher, exited,
                   runs, indexPackage, appended, appends>>

\* The offsets that RemoveIndexItem keeps: those of the bucket, as cache.Get
\* returned it, whose record has another key.
NewOffsets(cache, file, key) ==
    SelectSeq(cache[getPartialKey(key)],
              LAMBDA off : ReadKvItem(file, off).key # key)

\* KvStore.Del up to the end of RemoveIndexItem's loop: Cache.Remove, then
\* cache.Get(partialKey) and the log reads that fill newOffsets.  The caller
\* thread holds no lock, so FlushLog and FlushIndex run between this step
\* and the cache.Add of DelAdd.  The history records the call in DelAdd.
Del(key) ==
    /\ ~exited /\ pcEng = "idle" /\ budget > 0
    /\ Cache' = CacheRemove(Cache, key)
    /\ IF RemoveIndexItemFatal(IndexCache, log, key)
       THEN exited' = TRUE /\ UNCHANGED newOffsets
       ELSE /\ newOffsets' =
                  IF getPartialKey(key) # Empty
                     /\ CacheGetOk(IndexCache, getPartialKey(key))
                  THEN [key |-> key, ok |-> TRUE,
                        offsets |-> NewOffsets(IndexCache, log, key)]
                  ELSE [key |-> key, ok |-> FALSE, offsets |-> <<>>]
            /\ UNCHANGED exited
    /\ pcEng' = "remove"
    /\ budget' = budget - 1
    /\ UNCHANGED <<indexCacheCopy, disk, IndexCache, channels, flushLock,
                   pending, logFlusher, indexFlusher, runs, indexPackage, history>>

\* The rest of KvStore.Del: RemoveIndexItem's cache.Add(partialKey,
\* newOffsets), then the channel send.
DelAdd ==
    /\ ~exited /\ pcEng = "remove"
    /\ IndexCache' = IF newOffsets.ok
                     THEN CacheAdd(IndexCache, getPartialKey(newOffsets.key),
                                   newOffsets.offsets)
                     ELSE IndexCache
    /\ LET command == Command(DEL_COMMAND, newOffsets.key, Empty, nextId)
       IN  /\ IF Len(logBufferChannel) < LOG_FLUSH_THRESHOLD
              THEN /\ logBufferChannel' = Append(logBufferChannel, command)
                   /\ pcEng' = "idle"
                   /\ UNCHANGED pending
              ELSE /\ pending' = command
                   /\ pcEng' = "send"
                   /\ UNCHANGED logBufferChannel
           /\ enqueued' = Enqueued(command)
           /\ lastCall' = command
    /\ model' = [model EXCEPT ![newOffsets.key] = [st |-> "del", v |-> Empty]]
    /\ newOffsets' = NoRemove
    /\ nextId' = nextId + 1
    /\ UNCHANGED <<indexCacheCopy, disk, Cache, logClosed, indexBufferChannel,
                   indexClosed, flushLock, logFlusher, indexFlusher, exited,
                   runs, indexPackage, budget, appended, written, appends>>

\* The blocked send of Put or Del completes once the channel has room.
Send ==
    /\ ~exited /\ pcEng = "send"
    /\ Len(logBufferChannel) < LOG_FLUSH_THRESHOLD
    /\ logBufferChannel' = Append(logBufferChannel, pending)
    /\ pending' = ZeroCommand
    /\ pcEng' = "idle"
    /\ UNCHANGED <<indexCacheCopy, disk, memory, logClosed, indexBufferChannel, indexClosed,
                   flushLock, logFlusher, indexFlusher, exited, runs, indexPackage, budget,
                   history, newOffsets>>

\* KvStore.Get over a value cache, an index cache and a data log: the value
\* cache first, then the offsets of the partial key and ReadGet.
KvGet(cache, indexCache, file, key) ==
    IF CacheGetOk(cache, key) THEN [ok |-> TRUE, value |-> cache[key]]
    ELSE IF ~CacheGetOk(indexCache, getPartialKey(key))
    THEN [ok |-> FALSE, value |-> Empty]
    ELSE ReadGet(file, key, indexCache[getPartialKey(key)])

\* What KvStore.Get returns in the current state.
GetResult(key) == KvGet(Cache, IndexCache, log, key)

\* Get(key) can run and return: the caller thread is between calls, and on
\* a cache miss flushLock.RLock() is granted.
Readable(key) ==
    /\ ~exited /\ pcEng = "idle"
    /\ CacheGetOk(Cache, key) \/ ~flushLock

\* KvStore.Get returns GetResult(key) and changes nothing.
Get(key) ==
    /\ Readable(key)
    /\ UNCHANGED vars

\* KvStore.Shutdown: close the command channel, then wait on shutdownChannel.
Shutdown ==
    /\ ~exited /\ pcEng = "idle"
    /\ logClosed' = TRUE
    /\ pcEng' = "wait"
    /\ UNCHANGED <<newOffsets, indexCacheCopy, disk, memory, logBufferChannel, indexBufferChannel,
                   indexClosed, flushLock, pending, logFlusher, indexFlusher,
                   exited, runs, indexPackage, budget, history>>

\* done <- true in FlushIndex meets <-k.shutdownChannel in Shutdown.
ShutdownReturn ==
    /\ ~exited /\ pcEng = "wait" /\ pcIdx = "ack"
    /\ pcEng' = "closed"
    /\ pcIdx' = "done"
    /\ UNCHANGED <<newOffsets, indexCacheCopy, disk, memory, channels, flushLock, pending, logFlusher,
                   pairs, idxOk, lastOffset, exited, runs, indexPackage, budget, history>>

\* KvStore.Put after Shutdown has returned: Cache.Add, then the send on the
\* closed channel panics and the process ends.
PutAfterShutdown(key, value) ==
    /\ ~exited /\ pcEng = "closed"
    /\ Cache' = CacheAdd(Cache, key, value)
    /\ exited' = TRUE
    /\ UNCHANGED <<indexCacheCopy, disk, IndexCache, channels, flushLock, engine,
                   logFlusher, indexFlusher, runs, indexPackage, budget, history>>

\* KvStore.Del after Shutdown has returned: Cache.Remove, RemoveIndexItem,
\* then the send on the closed channel panics.
DelAfterShutdown(key) ==
    /\ ~exited /\ pcEng = "closed"
    /\ Cache' = CacheRemove(Cache, key)
    /\ IndexCache' = IF RemoveIndexItemFatal(IndexCache, log, key)
                     THEN IndexCache
                     ELSE RemoveIndexItem(IndexCache, log, key)
    /\ exited' = TRUE
    /\ UNCHANGED <<indexCacheCopy, disk, channels, flushLock, engine,
                   logFlusher, indexFlusher, runs, indexPackage, budget, history>>

\* KvStore.Get after Shutdown has returned: it returns GetResult(key), as
\* before Shutdown, and changes nothing.
GetAfterShutdown(key) ==
    /\ ~exited /\ pcEng = "closed"
    /\ UNCHANGED vars

\* The program is started again on the same storage directory.
Reopen ==
    /\ pcEng = "closed" /\ runs < MaxRuns
    /\ NewKvStore
    /\ runs' = runs + 1
    /\ UNCHANGED indexPackage
    /\ lastCall' = ZeroCommand
    /\ UNCHANGED <<indexCacheCopy, disk, budget, nextId, appended, model, written,
                   enqueued, appends>>

\* ----------------------------------------------------------------- FlushLog
\* Position of the first command of the batch at or after ci with this type
\* (0 when there is none).
NextOfType(type) ==
    LET at == {j \in ci..Len(commands) : commands[j].Type = type}
    IN  IF at = {} THEN 0 ELSE CHOOSE j \in at : \A i \in at : j <= i

\* Mutant of LogRecv: the flush starts after every receive.
LogRecv_FlushEach ==
    /\ ~exited /\ pcLog = "recv"
    /\ logBufferChannel # <<>> \/ logClosed
    /\ LET ok == logBufferChannel # <<>>
           command == IF ok THEN Head(logBufferChannel) ELSE ZeroCommand
       IN  /\ commands' = Append(commands, command)
           /\ logOk' = ok
           /\ logBufferChannel' = IF ok THEN Tail(logBufferChannel) ELSE <<>>
    /\ pcLog' = "puts"
    /\ flushLock' = TRUE
    /\ ci' = 1
    /\ UNCHANGED <<indexCacheCopy, disk, memory, logClosed, indexBufferChannel, indexClosed,
                   engine, indexFlusher, exited, runs, indexPackage, budget, history>>

\* command, ok := <-logBuffer; commands = append(commands, command); with a
\* full batch or a closed channel the flush starts with flushLock.Lock().
LogRecv ==
    /\ ~exited /\ pcLog = "recv"
    /\ logBufferChannel # <<>> \/ logClosed
    /\ LET ok == logBufferChannel # <<>>
           command == IF ok THEN Head(logBufferChannel) ELSE ZeroCommand
           batch == Append(commands, command)
       IN  /\ commands' = batch
           /\ logOk' = ok
           /\ logBufferChannel' = IF ok THEN Tail(logBufferChannel) ELSE <<>>
           /\ IF Len(batch) = LOG_FLUSH_THRESHOLD \/ ~ok
              THEN pcLog' = "puts" /\ flushLock' = TRUE
              ELSE pcLog' = "recv" /\ UNCHANGED flushLock
    /\ ci' = 1
    /\ UNCHANGED <<indexCacheCopy, disk, memory, logClosed, indexBufferChannel, indexClosed,
                   engine, indexFlusher, exited, runs, indexPackage, budget, history>>

\* First loop of the flush, one Put command: WritePut, AddIndexItem, send.
LogFlushPut ==
    /\ ~exited /\ pcLog = "puts" /\ NextOfType(PUT_COMMAND) # 0
    /\ Len(indexBufferChannel) < INDEX_FLUSH_THRESHOLD
    /\ LET cmd == commands[NextOfType(PUT_COMMAND)]
           w == WritePut(log, cmd.Key, cmd.Value)
       IN  /\ log' = w.file
           /\ IF CacheGetOk(IndexCache, getPartialKey(cmd.Key))
                 /\ RemoveIndexItemFatal(IndexCache, w.file, cmd.Key)
              THEN exited' = TRUE /\ UNCHANGED IndexCache
              ELSE /\ IndexCache' = AddIndexItem(IndexCache, w.file, cmd.Key, w.offset)
                   /\ UNCHANGED exited
           /\ indexBufferChannel' =
                  Append(indexBufferChannel,
                         KvPair(cmd.Key, FALSE, Len(cmd.Value), w.offset))
           /\ appended' = Append(appended, cmd.id)
           /\ appends' = Wrote("FlushLog", cmd.id, Len(log), w.offset)
    /\ ci' = NextOfType(PUT_COMMAND) + 1
    /\ UNCHANGED <<indexCacheCopy, ckpt, swap, Cache, logBufferChannel, logClosed, indexClosed,
                   flushLock, engine, pcLog, commands, logOk, indexFlusher,
                   runs, indexPackage, budget, nextId, model, lastCall, written, enqueued>>

\* End of the first loop: flushLock.Unlock().
LogUnlock ==
    /\ ~exited /\ pcLog = "puts" /\ NextOfType(PUT_COMMAND) = 0
    /\ flushLock' = FALSE
    /\ pcLog' = "dels"
    /\ ci' = 1
    /\ UNCHANGED <<indexCacheCopy, disk, memory, channels, engine, commands, logOk,
                   indexFlusher, exited, runs, indexPackage, budget, history>>

\* Second loop of the flush, one Del command: WritePut(key, ""), send.
LogFlushDel ==
    /\ ~exited /\ pcLog = "dels" /\ NextOfType(DEL_COMMAND) # 0
    /\ Len(indexBufferChannel) < INDEX_FLUSH_THRESHOLD
    /\ LET cmd == commands[NextOfType(DEL_COMMAND)]
           w == WritePut(log, cmd.Key, Empty)
       IN  /\ log' = w.file
           /\ indexBufferChannel' =
                  Append(indexBufferChannel, KvPair(cmd.Key, TRUE, 0, 0))
           /\ appended' = Append(appended, cmd.id)
           /\ appends' = Wrote("FlushLog", cmd.id, Len(log), w.offset)
    /\ ci' = NextOfType(DEL_COMMAND) + 1
    /\ UNCHANGED <<indexCacheCopy, ckpt, swap, memory, logBufferChannel, logClosed, indexClosed,
                   flushLock, engine, pcLog, commands, logOk, indexFlusher,
                   exited, runs, indexPackage, budget, nextId, model, lastCall, written,
                   enqueued>>

\* Mutant of LogFinish: indexBuffer is not closed at shutdown.
LogFinish_NoClose ==
    /\ ~exited /\ pcLog = "dels" /\ NextOfType(DEL_COMMAND) = 0
    /\ commands' = <<>>
    /\ ci' = 1
    /\ pcLog' = IF logOk THEN "recv" ELSE "done"
    /\ UNCHANGED <<indexCacheCopy, disk, memory, channels, flushLock, engine, logOk,
                   indexFlusher, exited, runs, indexPackage, budget, history>>

\* End of the flush: a new batch; after a closed channel close(indexBuffer).
LogFinish ==
    /\ ~exited /\ pcLog = "dels" /\ NextOfType(DEL_COMMAND) = 0
    /\ commands' = <<>>
    /\ ci' = 1
    /\ IF logOk
       THEN pcLog' = "recv" /\ UNCHANGED indexClosed
       ELSE pcLog' = "done" /\ indexClosed' = TRUE
    /\ UNCHANGED <<indexCacheCopy, disk, memory, logBufferChannel, logClosed,
                   indexBufferChannel, flushLock, engine, logOk, indexFlusher,
                   exited, runs, indexPackage, budget, history>>

\* --------------------------------------------------------------- FlushIndex
\* Mutant of IdxRecv: on a closed channel the acknowledgement is sent at
\* once, before the last batch is flushed.
IdxRecv_AckBeforeFlush ==
    /\ ~exited /\ pcIdx = "recv"
    /\ indexBufferChannel # <<>> \/ indexClosed
    /\ LET ok == indexBufferChannel # <<>>
           kvPair == IF ok THEN Head(indexBufferChannel) ELSE ZeroKvPair
           batch == Append(pairs, kvPair)
       IN  /\ pairs' = batch
           /\ idxOk' = ok
           /\ indexBufferChannel' = IF ok THEN Tail(indexBufferChannel) ELSE <<>>
           /\ pcIdx' = IF ~ok THEN "ack"
                       ELSE IF Len(batch) = INDEX_FLUSH_THRESHOLD
                       THEN "load" ELSE "recv"
    /\ UNCHANGED <<indexCacheCopy, disk, memory, logBufferChannel, logClosed, indexClosed,
                   flushLock, engine, logFlusher, lastOffset, exited, runs, indexPackage,
                   budget, history>>

\* kvPair, ok := <-indexBuffer; pairs = append(pairs, kvPair).
IdxRecv ==
    /\ ~exited /\ pcIdx = "recv"
    /\ indexBufferChannel # <<>> \/ indexClosed
    /\ LET ok == indexBufferChannel # <<>>
           kvPair == IF ok THEN Head(indexBufferChannel) ELSE ZeroKvPair
           batch == Append(pairs, kvPair)
       IN  /\ pairs' = batch
           /\ idxOk' = ok
           /\ indexBufferChannel' = IF ok THEN Tail(indexBufferChannel) ELSE <<>>
           /\ pcIdx' = IF Len(batch) = INDEX_FLUSH_THRESHOLD \/ ~ok
                       THEN "load" ELSE "recv"
    /\ UNCHANGED <<indexCacheCopy, disk, memory, logBufferChannel, logClosed, indexClosed,
                   flushLock, engine, logFlusher, lastOffset, exited, runs, indexPackage,
                   budget, history>>

\* lastOffset after the loop over pairs, starting from the checkpoint's.
RECURSIVE LastLiveOffset(_, _)
LastLiveOffset(start, ps) ==
    IF ps = <<>> THEN start
    ELSE LastLiveOffset(IF ~Head(ps).Tomb /\ Head(ps).Key # Empty
                        THEN Head(ps).Offset ELSE start,
                        Tail(ps))

\* Remove a left-over swap file, LoadIndexJson(initCache, path), lastOffset.
\* initCache is the index cache that Get and FlushLog use.
IdxLoad ==
    /\ ~exited /\ pcIdx = "load"
    /\ swap' = NoFile
    /\ LET loaded == LoadIndexJson(IndexCache, log, ckpt)
       IN  /\ ckpt' = loaded.indexFile
           /\ IF loaded.fatal
              THEN exited' = TRUE /\ UNCHANGED IndexCache
              ELSE IndexCache' = loaded.cache /\ UNCHANGED exited
           /\ lastOffset' = LastLiveOffset(loaded.lastLineOffset, pairs)
    /\ pcIdx' = "write"
    /\ UNCHANGED <<indexCacheCopy, log, Cache, channels, flushLock, engine, logFlusher, pairs,
                   idxOk, runs, indexPackage, budget, history>>

\* WriteIndex(lastOffset, initCache, swap_path); pairs = make(...).
IdxWrite ==
    /\ ~exited /\ pcIdx = "write"
    /\ swap' = WriteIndex(lastOffset, IndexCache)
    /\ pairs' = <<>>
    /\ pcIdx' = "rename"
    /\ UNCHANGED <<indexCacheCopy, log, ckpt, memory, channels, flushLock, engine, logFlusher,
                   idxOk, lastOffset, exited, runs, indexPackage, budget, history>>

\* os.Rename(swap_path, path).
IdxRename ==
    /\ ~exited /\ pcIdx = "rename"
    /\ ckpt' = swap
    /\ swap' = NoFile
    /\ pcIdx' = IF idxOk THEN "recv" ELSE "ack"
    /\ lastOffset' = 0
    /\ UNCHANGED <<indexCacheCopy, log, memory, channels, flushLock, engine, logFlusher, pairs,
                   idxOk, exited, runs, indexPackage, budget, history>>

\* ------------------------------------------------------------ specification
Next ==
    \/ \E key \in Keys, value \in Values : Put(key, value)
    \/ \E key \in Keys : Del(key)
    \/ DelAdd
    \/ Send
    \/ \E key \in Keys : Get(key)
    \/ Shutdown
    \/ ShutdownReturn
    \/ \E key \in Keys, value \in Values : PutAfterShutdown(key, value)
    \/ \E key \in Keys : DelAfterShutdown(key)
    \/ \E key \in Keys : GetAfterShutdown(key)
    \/ Reopen
    \/ LogRecv
    \/ LogFlushPut
    \/ LogUnlock
    \/ LogFlushDel
    \/ LogFinish
    \/ IdxRecv
    \/ IdxLoad
    \/ IdxWrite
    \/ IdxRename

Spec == Init /\ [][Next]_vars

\* ---------------------------------------------------------------- fairness
\* The two workers are goroutines that NewKvStore starts; the Go scheduler
\* runs a goroutine that can take a step.  A blocked channel send or receive
\* of the caller thread completes once its peer is ready.
FlushLog == LogRecv \/ LogFlushPut \/ LogUnlock \/ LogFlushDel \/ LogFinish
FlushIndex == IdxRecv \/ IdxLoad \/ IdxWrite \/ IdxRename

\* FlushLog can take a step: a receive has something to receive (or the
\* channel is closed), a send of a KvPair has room in indexBuffer.
FlushLogReady ==
    /\ ~exited
    /\ \/ pcLog = "recv" /\ (logBufferChannel # <<>> \/ logClosed)
       \/ /\ pcLog = "puts"
          /\ NextOfType(PUT_COMMAND) # 0
                 => Len(indexBufferChannel) < INDEX_FLUSH_THRESHOLD
       \/ /\ pcLog = "dels"
          /\ NextOfType(DEL_COMMAND) # 0
                 => Len(indexBufferChannel) < INDEX_FLUSH_THRESHOLD

\* FlushIndex can take a step.
FlushIndexReady ==
    /\ ~exited
    /\ \/ pcIdx = "recv" /\ (indexBufferChannel # <<>> \/ indexClosed)
       \/ pcIdx \in {"load", "write", "rename"}

\* Weak fairness of both workers and of the caller's blocked channel
\* operations.  For the workers WF_vars is written out, with the guards of
\* their steps (FlushLogReady, FlushIndexReady) as the enabling condition.
LiveSpec ==
    /\ Init /\ [][Next]_vars
    /\ ([]<>~FlushLogReady \/ []<><<FlushLog>>_vars)
    /\ ([]<>~FlushIndexReady \/ []<><<FlushIndex>>_vars)
    /\ WF_vars(Send)
    /\ WF_vars(ShutdownReturn)

\* ================================================== src/store/kvstore.go
\* The single-offset revision of the engine (package kvstore in src/store):
\* IndexCache maps a full key to one offset, Put appends its record itself
\* before it enqueues the command, FlushLog appends the batch in one loop,
\* and FlushIndex keeps its own index cache (indexCacheCopy) and writes that.
\* It runs on the same files and channels, so the specification SpecStore
\* uses the same variables; Shutdown, the channel send, FlushIndex's receive
\* and its rename are the same code in both revisions.  WritePut is two
\* steps, WriteString and Stat, because the caller thread and FlushLog
\* append to the data log concurrently.

\* The values that Put is called with: a value may be the empty string.
StoreValues == {<<"v">>, Empty}

StoreKvPair(key, tomb, offset) == [Key |-> key, Tomb |-> tomb, Offset |-> offset]

\* ReadGet: open, seek, read one record, value = record[1].
StoreReadGet(file, offset) ==
    LET r == CsvRead(file, offset)
    IN  IF r.eof THEN [ok |-> FALSE, value |-> Empty, panic |-> FALSE]
        ELSE IF Len(r.record) < 2
        THEN [ok |-> FALSE, value |-> Empty, panic |-> TRUE]
        ELSE [ok |-> TRUE, value |-> r.record[2], panic |-> FALSE]

\* What KvStore.Get returns in the current state.
StoreGetResult(key) ==
    IF CacheGetOk(Cache, key)
    THEN [ok |-> TRUE, value |-> Cache[key], panic |-> FALSE]
    ELSE IF ~CacheGetOk(IndexCache, key)
    THEN [ok |-> FALSE, value |-> Empty, panic |-> FALSE]
    ELSE StoreReadGet(log, IndexCache[key])

getMaxOffset(indexCache) ==
    LET offsets == {indexCache[key] : key \in DOMAIN indexCache} \cup {0}
    IN  CHOOSE m \in offsets : \A o \in offsets : o <= m

\* WriteIndex: getMaxOffset and one KeyOffset per key of the index cache.
StoreWriteIndex(indexCache) ==
    [exists |-> TRUE, whole |-> TRUE, lastOffset |-> getMaxOffset(indexCache),
     keyOffsets |-> [key \in (DOMAIN indexCache) \ {Empty} |-> indexCache[key]]]

\* LoadIndexJson: cache.Add(kv.Key, kv.Offset) for every entry of the file.
StoreLoadIndexJson(cache, indexFile) ==
    [cache |-> [key \in (DOMAIN cache) \cup (DOMAIN indexFile.keyOffsets) |->
                   IF key \in DOMAIN indexFile.keyOffsets
                   THEN indexFile.keyOffsets[key] ELSE cache[key]],
     lastLineOffset |-> indexFile.lastOffset]

\* LoadIndexData: the csv reader reads from readPos, buffer.ReadBytes('\n')
\* takes the lines from bufPos, and position counts from 0.  record[2] of a
\* record with fewer than three fields panics.
RECURSIVE StoreReplayLog(_, _, _, _, _)
StoreReplayLog(cache, file, readPos, bufPos, position) ==
    LET r == CsvRead(file, readPos)
    IN  IF r.eof THEN [cache |-> cache, position |-> position, fatal |-> FALSE]
        ELSE IF Len(r.record) < 3
        THEN [cache |-> cache, position |-> position, fatal |-> TRUE]
        ELSE LET key == r.record[1]
                 value == r.record[2]
                 tomb == r.record[3]
                 e == LineEnd(file, bufPos + 1)
                 bufNext == IF e > Len(file) THEN Len(file) ELSE e
                 lineBytes == bufNext - bufPos
             IN  StoreReplayLog(IF value # tomb
                                THEN CacheAdd(cache, key, position)
                                ELSE CacheRemove(cache, key),
                                file, r.next, bufNext, position + lineBytes)

StoreLoadIndexData(startingOffset, cache, file) ==
    StoreReplayLog(cache, file, startingOffset, startingOffset, 0)

\* LoadIndex: the checkpoint if there is one, then the log from its lastOffset.
StoreLoadIndex(cache, file, indexFile) ==
    LET json == IF fileExists(indexFile)
                THEN StoreLoadIndexJson(cache, indexFile)
                ELSE [cache |-> cache, lastLineOffset |-> 0]
    IN  StoreLoadIndexData(json.lastLineOffset, json.cache, file)

\* NewKvStore: LoadIndex into indexCache, a copy of it for FlushIndex.
StoreNewKvStore ==
    LET loaded == StoreLoadIndex(EmptyCache, log, ckpt)
    IN  /\ Cache' = EmptyCache
        /\ IndexCache' = loaded.cache
        /\ indexCacheCopy' = loaded.cache
        /\ exited' = loaded.fatal
        /\ logBufferChannel' = <<>>
        /\ logClosed' = FALSE
        /\ indexBufferChannel' = <<>>
        /\ indexClosed' = FALSE
        /\ pcEng' = "idle"
        /\ pending' = ZeroCommand
        /\ newOffsets' = NoRemove
        /\ pcLog' = "recv"
        /\ commands' = <<>>
        /\ ci' = 1
        /\ logOk' = TRUE
        /\ pcIdx' = "recv"
        /\ pairs' = <<>>
        /\ idxOk' = TRUE

\* ------------------------------------------------------------ caller thread
\* KvStore.Put, first half: WritePut's file.WriteString.
StorePutWrite(key, value) ==
    /\ ~exited /\ pcEng = "idle" /\ budget > 0
    /\ log' = log \o PutLine(key, value)
    /\ pending' = Command(PUT_COMMAND, key, value, nextId)
    /\ pcEng' = "stat"
    /\ budget' = budget - 1
    /\ nextId' = nextId + 1
    /\ model' = [model EXCEPT ![key] = [st |-> "put", v |-> value]]
    /\ lastCall' = Command(PUT_COMMAND, key, value, nextId)
    /\ written' = [written EXCEPT ![key] = @ \cup {value}]
    /\ appends' = Wrote("Put", nextId, Len(log), NoOffset)
    /\ UNCHANGED <<ckpt, swap, memory, indexCacheCopy, channels, flushLock,
                   logFlusher, indexFlusher, exited, runs, indexPackage, appended, enqueued,
                   newOffsets>>

\* KvStore.Put, second half: WritePut's file.Stat, IndexCache.Add,
\* Cache.Add and the channel send.
StorePutStat ==
    /\ ~exited /\ pcEng = "stat"
    /\ LET offset == Len(log) - Len(PutLine(pending.Key, pending.Value))
       IN  /\ IndexCache' = CacheAdd(IndexCache, pending.Key, offset)
           /\ appends' = Returned("Put", offset)
    /\ Cache' = CacheAdd(Cache, pending.Key, pending.Value)
    /\ IF Len(logBufferChannel) < LOG_FLUSH_THRESHOLD
       THEN /\ logBufferChannel' = Append(logBufferChannel, pending)
            /\ pending' = ZeroCommand
            /\ pcEng' = "idle"
       ELSE /\ pcEng' = "send"
            /\ UNCHANGED <<logBufferChannel, pending>>
    /\ enqueued' = Enqueued(pending)
    /\ UNCHANGED <<disk, indexCacheCopy, logClosed, indexBufferChannel,
                   indexClosed, flushLock, logFlusher, indexFlusher, exited,
                   runs, indexPackage, budget, nextId, appended, model, lastCall, written,
                   newOffsets>>

\* KvStore.Del: the command is enqueued only when IndexCache held the key.
StoreDel(key) ==
    /\ ~exited /\ pcEng = "idle" /\ budget > 0
    /\ Cache' = CacheRemove(Cache, key)
    /\ IndexCache' = CacheRemove(IndexCache, key)
    /\ IF CacheGetOk(IndexCache, key)
       THEN /\ Enqueue(Command(DEL_COMMAND, key, Empty, nextId))
            /\ nextId' = nextId + 1
            /\ enqueued' = Enqueued(Command(DEL_COMMAND, key, Empty, nextId))
       ELSE UNCHANGED <<logBufferChannel, engine, nextId, enqueued>>
    /\ budget' = budget - 1
    /\ model' = [model EXCEPT ![key] = [st |-> "del", v |-> Empty]]
    /\ lastCall' = Command(DEL_COMMAND, key, Empty, nextId)
    /\ UNCHANGED <<disk, indexCacheCopy, logClosed, indexBufferChannel,
                   indexClosed, flushLock, logFlusher, indexFlusher, exited,
                   runs, indexPackage, appended, written, appends>>

\* KvStore.Get returns StoreGetResult(key) and changes nothing.
StoreGet(key) ==
    /\ ~exited /\ pcEng = "idle"
    /\ UNCHANGED vars

\* The process is killed: what is in memory is lost, the files stay.
Crash ==
    /\ ~exited /\ pcEng \notin {"closed", "crashed"}
    /\ pcEng' = "crashed"
    /\ pending' = ZeroCommand
    /\ newOffsets' = NoRemove
    /\ Cache' = EmptyCache
    /\ IndexCache' = EmptyCache
    /\ indexCacheCopy' = EmptyCache
    /\ logBufferChannel' = <<>>
    /\ logClosed' = FALSE
    /\ indexBufferChannel' = <<>>
    /\ indexClosed' = FALSE
    /\ pcLog' = "done"
    /\ commands' = <<>>
    /\ ci' = 1
    /\ logOk' = TRUE
    /\ pcIdx' = "done"
    /\ pairs' = <<>>
    /\ idxOk' = TRUE
    /\ UNCHANGED <<disk, flushLock, lastOffset, exited, runs, indexPackage, budget, history>>

\* Mutant of StoreReopen: the checkpoint is removed once it has been loaded.
StoreReopen_ConsumeCheckpoint ==
    /\ pcEng \in {"closed", "crashed"} /\ runs < MaxRuns
    /\ StoreNewKvStore
    /\ ckpt' = NoFile
    /\ runs' = runs + 1
    /\ UNCHANGED indexPackage
    /\ lastCall' = ZeroCommand
    /\ UNCHANGED <<log, swap, flushLock, lastOffset, budget, nextId, appended,
                   model, written, enqueued, appends>>

\* The program is started again on the same storage directory.
StoreReopen ==
    /\ pcEng \in {"closed", "crashed"} /\ runs < MaxRuns
    /\ StoreNewKvStore
    /\ runs' = runs + 1
    /\ UNCHANGED indexPackage
    /\ lastCall' = ZeroCommand
    /\ UNCHANGED <<disk, flushLock, lastOffset, budget, nextId, appended,
                   model, written, enqueued, appends>>

\* ----------------------------------------------------------------- FlushLog
\* command, ok := <-logBuffer; commands = append(commands, command).
StoreLogRecv ==
    /\ ~exited /\ pcLog = "recv"
    /\ logBufferChannel # <<>> \/ logClosed
    /\ LET ok == logBufferChannel # <<>>
           command == IF ok THEN Head(logBufferChannel) ELSE ZeroCommand
           batch == Append(commands, command)
       IN  /\ commands' = batch
           /\ logOk' = ok
           /\ logBufferChannel' = IF ok THEN Tail(logBufferChannel) ELSE <<>>
           /\ pcLog' = IF Len(batch) = LOG_FLUSH_THRESHOLD \/ ~ok
                       THEN "flush" ELSE "recv"
    /\ ci' = 1
    /\ UNCHANGED <<disk, memory, indexCacheCopy, logClosed, indexBufferChannel,
                   indexClosed, flushLock, engine, indexFlusher, exited, runs, indexPackage,
                   budget, history>>

\* The command of the batch at ci is a Put or a Del.
StoreFlushable ==
    /\ ci <= Len(commands)
    /\ commands[ci].Type \in {PUT_COMMAND, DEL_COMMAND}

\* The loop of the flush, one command: WritePut's file.WriteString.
StoreLogWrite ==
    /\ ~exited /\ pcLog = "flush" /\ StoreFlushable
    /\ log' = log \o PutLine(commands[ci].Key, commands[ci].Value)
    /\ appended' = Append(appended, commands[ci].id)
    /\ appends' = Wrote("FlushLog", commands[ci].id, Len(log), NoOffset)
    /\ pcLog' = "stat"
    /\ UNCHANGED <<ckpt, swap, memory, indexCacheCopy, channels, flushLock,
                   engine, commands, ci, logOk, indexFlusher, exited, runs, indexPackage,
                   budget, nextId, model, lastCall, written, enqueued>>

\* The loop of the flush, same command: WritePut's file.Stat and the send of
\* the KvPair (the offset of a Del's pair is 0).
StoreLogStat ==
    /\ ~exited /\ pcLog = "stat"
    /\ Len(indexBufferChannel) < INDEX_FLUSH_THRESHOLD
    /\ LET cmd == commands[ci]
           offset == Len(log) - Len(PutLine(cmd.Key, cmd.Value))
       IN  /\ indexBufferChannel' =
                   Append(indexBufferChannel,
                          IF cmd.Type = PUT_COMMAND
                          THEN StoreKvPair(cmd.Key, FALSE, offset)
                          ELSE StoreKvPair(cmd.Key, TRUE, 0))
           /\ appends' = Returned("FlushLog", offset)
    /\ ci' = ci + 1
    /\ pcLog' = "flush"
    /\ UNCHANGED <<disk, memory, indexCacheCopy, logBufferChannel, logClosed,
                   indexClosed, flushLock, engine, commands, logOk,
                   indexFlusher, exited, runs, indexPackage, budget, nextId, appended,
                   model, lastCall, written, enqueued>>

\* End of the flush: a new batch; after a closed channel close(indexBuffer).
\* The zero Command that a closed channel yields is neither Put nor Del.
StoreLogFinish ==
    /\ ~exited /\ pcLog = "flush" /\ ~StoreFlushable
    /\ commands' = <<>>
    /\ ci' = 1
    /\ IF logOk
       THEN pcLog' = "recv" /\ UNCHANGED indexClosed
       ELSE pcLog' = "done" /\ indexClosed' = TRUE
    /\ UNCHANGED <<disk, memory, indexCacheCopy, logBufferChannel, logClosed,
                   indexBufferChannel, flushLock, engine, logOk, indexFlusher,
                   exited, runs, indexPackage, budget, history>>

\* --------------------------------------------------------------- FlushIndex
\* The loop over pairs: initCache.Add for a live pair, else initCache.Remove.
RECURSIVE ApplyPairs(_, _)
ApplyPairs(cache, ps) ==
    IF ps = <<>> THEN cache
    ELSE ApplyPairs(IF ~Head(ps).Tomb /\ Head(ps).Key # Empty
                    THEN CacheAdd(cache, Head(ps).Key, Head(ps).Offset)
                    ELSE CacheRemove(cache, Head(ps).Key),
                    Tail(ps))

\* Remove a left-over swap file, apply the pairs to initCache, and
\* WriteIndex up to ioutil.WriteFile creating the swap file without bytes.
StoreIdxApply ==
    /\ ~exited /\ pcIdx = "load"
    /\ indexCacheCopy' = ApplyPairs(indexCacheCopy, pairs)
    /\ swap' = EmptyFile
    /\ pcIdx' = "write"
    /\ UNCHANGED <<log, ckpt, memory, channels, flushLock, engine, logFlusher,
                   pairs, idxOk, lastOffset, exited, runs, indexPackage, budget, history>>

\* Mutant of StoreIdxWrite: the checkpoint is written over index_file.json.
StoreIdxWrite_InPlace ==
    /\ ~exited /\ pcIdx = "write"
    /\ ckpt' = StoreWriteIndex(indexCacheCopy)
    /\ pairs' = <<>>
    /\ pcIdx' = "rename"
    /\ UNCHANGED <<log, swap, memory, indexCacheCopy, channels, flushLock,
                   engine, logFlusher, idxOk, lastOffset, exited, runs, indexPackage, budget,
                   history>>
\* ioutil.WriteFile writes the marshalled index to the swap file;
\* pairs = make(...).
StoreIdxWrite ==
    /\ ~exited /\ pcIdx = "write"
    /\ swap' = StoreWriteIndex(indexCacheCopy)
    /\ pairs' = <<>>
    /\ pcIdx' = "rename"
    /\ UNCHANGED <<log, ckpt, memory, indexCacheCopy, channels, flushLock,
                   engine, logFlusher, idxOk, lastOffset, exited, runs, indexPackage, budget,
                   history>>

StoreNext ==
    \/ \E key \in Keys, value \in StoreValues : StorePutWrite(key, value)
    \/ StorePutStat
    \/ \E key \in Keys : StoreDel(key)
    \/ Send
    \/ \E key \in Keys : StoreGet(key)
    \/ Shutdown
    \/ ShutdownReturn
    \/ Crash
    \/ StoreReopen
    \/ StoreLogRecv
    \/ StoreLogWrite
    \/ StoreLogStat
    \/ StoreLogFinish
    \/ IdxRecv
    \/ StoreIdxApply
    \/ StoreIdxWrite
    \/ IdxRename

SpecStore == Init /\ [][StoreNext]_vars

\* ============================================== recovery of a given data log
\* NewKvStore of src/store/kvstore.go on a storage directory whose data log
\* holds up to MaxLines lines, well-formed records and malformed ones, and
\* that has no checkpoint: the specification SpecRecovery starts with the
\* process not running and constructs the store.
MaxLines == 3

\* Lines of a data log: two Put records, a tombstone, a line that was cut
\* after the key, and a line with a comma inside the value.
LogLines ==
    {PutLine(KeyS, <<"v">>), PutLine(KeyX, <<"v">>), PutLine(KeyS, Empty),
     KeyS \o <<"\n">>, PutLine(KeyS, <<"v", ",", "w">>)}

RECURSIVE Concat(_)
Concat(lines) ==
    IF lines = <<>> THEN <<>> ELSE Head(lines) \o Concat(Tail(lines))

Logs == {Concat(lines) : lines \in UNION {[1..n -> LogLines] : n \in 0..MaxLines}}

\* The records of the file before its first malformed line.
RECURSIVE GoodPrefix(_, _)
GoodPrefix(file, pos) ==
    IF pos >= Len(file) THEN file
    ELSE LET e == LineEnd(file, pos + 1)
         IN  IF Len(SplitFields(SubSeq(file, pos + 1, e - 1))) = RecordFields
             THEN GoodPrefix(file, e)
             ELSE SubSeq(file, 1, pos)

RecoveryInit ==
    /\ log \in Logs
    /\ ckpt = NoFile
    /\ swap = NoFile
    /\ Cache = EmptyCache
    /\ IndexCache = EmptyCache
    /\ indexCacheCopy = EmptyCache
    /\ logBufferChannel = <<>>
    /\ logClosed = FALSE
    /\ indexBufferChannel = <<>>
    /\ indexClosed = FALSE
    /\ flushLock = FALSE
    /\ pcEng = "crashed"
    /\ pending = ZeroCommand
    /\ newOffsets = NoRemove
    /\ pcLog = "done"
    /\ commands = <<>>
    /\ ci = 1
    /\ logOk = TRUE
    /\ pcIdx = "done"
    /\ pairs = <<>>
    /\ idxOk = TRUE
    /\ lastOffset = 0
    /\ exited = FALSE
    /\ runs = 1
    /\ budget = 0
    /\ nextId = 1
    /\ appended = <<>>
    /\ model = [k \in Keys |-> NoCall]
    /\ lastCall = ZeroCommand
    /\ written = [k \in Keys |-> {}]
    /\ enqueued = <<>>
    /\ appends = <<>>
    /\ NewLocalIndex
    /\ revision = HeadRevision

RecoveryNext ==
    \/ StoreReopen
    \/ \E key \in Keys : StoreGet(key)

SpecRecovery == RecoveryInit /\ [][RecoveryNext]_vars

\* ============================================ calls on the package index
\* A client of the package adds log items, puts an index item for a record
\* it has added, deletes keys, looks keys up and loads the index.
\* DataLog.AddLogItem(NewLogItem(key, value))
DataLogAdd(key, value) ==
    /\ Len(added) < MaxLogItems
    /\ LET logItem == NewLogItem(key, value, NoLogOffset)
           r == AddLogItem(dataLogFile, logItem)
       IN  /\ dataLogFile' = r.file
           /\ added' = Append(added, [key |-> key, value |-> value,
                                      size |-> logItem.size,
                                      offset |-> r.offset, put |-> FALSE])
           /\ indexCall' = IndexCall("AddLogItem", key, NoIndexItem, r.offset,
                                     indexItems, logItem, NoGet, TRUE)
    /\ UNCHANGED <<indexItems, revision, indexCalls, store>>

\* DataLog.ReadLogItem(offset)
DataLogRead(offset) ==
    /\ indexCall' = IndexCall("ReadLogItem", Empty, NoIndexItem, offset,
                              indexItems,
                              LocalDataLogRead(revision, dataLogFile, offset),
                              NoGet, TRUE)
    /\ UNCHANGED <<dataLogFile, indexItems, revision, added, indexCalls, store>>

\* Index.Put(NewIndexItem(key, offset, size)) for the i-th record added:
\* the client indexes the records in the order it added them.
IndexPut(i) ==
    /\ ~added[i].put
    /\ \A j \in 1..(i - 1) : added[j].put
    /\ LET item == NewIndexItem(added[i].key, added[i].offset, added[i].size)
       IN  /\ indexItems' = LocalIndexPut(revision, indexItems, item)
           /\ indexCall' = IndexCall("Put", added[i].key, item, item.offset,
                                     indexItems, NoLogItem("nil"), NoGet, TRUE)
    /\ added' = [added EXCEPT ![i].put = TRUE]
    /\ UNCHANGED <<dataLogFile, revision, indexCalls, store>>

\* Index.Del(key)
IndexDel(key) ==
    /\ indexCalls < MaxIndexCalls
    /\ indexItems' = LocalIndexDel(revision, indexItems, dataLogFile, key)
    /\ indexCall' = IndexCall("Del", key, NoIndexItem, 0, indexItems,
                              NoLogItem("nil"), NoGet, TRUE)
    /\ indexCalls' = indexCalls + 1
    /\ UNCHANGED <<dataLogFile, revision, added, store>>

\* Index.Get(key)
IndexGet(key) ==
    /\ indexCall' = IndexCall("Get", key, NoIndexItem, 0, indexItems,
                              NoLogItem("nil"), LocalIndexGet(indexItems, key),
                              TRUE)
    /\ UNCHANGED <<dataLogFile, indexItems, revision, added, indexCalls, store>>

\* Index.Load(); it reads logItem.Offset(), which only the LogItem of
\* part_003 has.
IndexLoad ==
    /\ indexCalls < MaxIndexCalls
    /\ revision.dataLog = "part_003"
    /\ LET loaded == LocalIndexLoad(indexItems, dataLogFile)
       IN  /\ indexItems' = loaded.items
           /\ indexCall' = IndexCall("Load", Empty, NoIndexItem,
                                     getLastIndex(indexItems), indexItems,
                                     NoLogItem(loaded.err), NoGet, loaded.done)
    /\ indexCalls' = indexCalls + 1
    /\ UNCHANGED <<dataLogFile, revision, added, store>>

\* The offsets a client reads at: the start of each record added and the
\* byte after it, and the last byte, the size and the byte after the size
\* of the file.
ReadOffsets ==
    LET starts == {added[i].offset : i \in 1..Len(added)}
        ends == {Len(dataLogFile) + d : d \in {-1, 0, 1}}
    IN  {o \in starts \cup {s + 1 : s \in starts} \cup ends : o >= 0}

IndexInit ==
    /\ EmptyStorage
    /\ NewLocalIndex
    /\ revision \in Revisions

IndexNext ==
    \/ \E item \in LogItems : DataLogAdd(item.key, item.value)
    \/ \E offset \in ReadOffsets : DataLogRead(offset)
    \/ \E i \in 1..Len(added) : IndexPut(i)
    \/ \E key \in IndexKeys : IndexDel(key)
    \/ \E key \in IndexKeys : IndexGet(key)
    \/ IndexLoad

SpecIndex == IndexInit /\ [][IndexNext]_vars

\* ------------------------------------------------------------------ claims
InLog(id) == \E i \in 1..Len(appended) : appended[i] = id

Found(key, value) == GetResult(key).ok /\ GetResult(key).value = value

\* C1: a Get(k) issued right after Put(k,v) on the same thread returns v,
\* whether or not FlushLog has written the Put to the data log.
C1_ReadYourWrites ==
    \A key \in Keys :
        (Readable(key) /\ lastCall.Type = PUT_COMMAND /\ lastCall.Key = key)
            => Found(key, lastCall.Value)

\* Get can run right after a Put that replaced an earlier value of the key
\* and whose record is not yet in the data log.
C1_Witness ==
    /\ lastCall.Type = PUT_COMMAND
    /\ Readable(lastCall.Key)
    /\ ~InLog(lastCall.id)
    /\ Cardinality(written[lastCall.Key]) = 2
    /\ Found(lastCall.Key, lastCall.Value)

\* C2: after Del(k) has returned, Get(k) fails until the next Put(k,_),
\* before and after the log flush and the index checkpoint.
C2_DeleteSemantics ==
    \A key \in Keys :
        (Readable(key) /\ model[key].st = "del") => ~GetResult(key).ok

\* C3: after the last Put(k,v), with no Del(k) after it, every Get(k)
\* returns v, from the value cache or through the index and the log.
C3_LastWriterWins ==
    \A key \in Keys :
        (Readable(key) /\ model[key].st = "put") => Found(key, model[key].v)

\* No Put or Del has been called since the store was reopened.
JustReopened == runs > 1 /\ pcEng = "idle" /\ lastCall = ZeroCommand /\ ~exited

\* C4: after Shutdown and a new store on the same directory, Get(k) returns
\* the last value put, for every key that was live at Shutdown.
C4_RestartDurability ==
    \A key \in Keys :
        (JustReopened /\ Readable(key) /\ model[key].st = "put")
            => Found(key, model[key].v)

\* C5: a key that was Put and then deleted before Shutdown is not found
\* after the store is reopened.
C5_TombstoneRecovery ==
    \A key \in Keys :
        (JustReopened /\ Readable(key) /\ model[key].st = "del"
           /\ written[key] # {})
            => ~GetResult(key).ok

\* Two distinct keys in one bucket of the index.
Collide(k1, k2) == k1 # k2 /\ getPartialKey(k1) = getPartialKey(k2)

\* Since the storage directory was empty the caller has Put k1 once, first,
\* and after that has only deleted k2.
OnlyDeleted(k1, k2) ==
    /\ enqueued # <<>>
    /\ enqueued[1].Type = PUT_COMMAND /\ enqueued[1].Key = k1
    /\ \A i \in 2..Len(enqueued) :
           enqueued[i].Type = DEL_COMMAND /\ enqueued[i].Key = k2

\* C6: for distinct keys k1, k2 with the same partial key, Get(k1) never
\* returns a value written only for k2, a Put(k2,_) or Del(k2) call leaves
\* what Get(k1) returns as it was, and deleting k2 does not change what
\* Get(k1) returns later on, after the flushes and after a restart.
C6_CollisionIndependence ==
    \A k1 \in Keys, k2 \in Keys :
        (Collide(k1, k2) /\ Readable(k1)) =>
            /\ (GetResult(k1).ok /\ GetResult(k1).value \in written[k2])
                   => GetResult(k1).value \in written[k1]
            /\ \A v \in Values :
                   KvGet(CacheAdd(Cache, k2, v), IndexCache, log, k1)
                       = GetResult(k1)
            /\ ~RemoveIndexItemFatal(IndexCache, log, k2)
                   => KvGet(CacheRemove(Cache, k2),
                            RemoveIndexItem(IndexCache, log, k2), log, k1)
                          = GetResult(k1)
            /\ OnlyDeleted(k1, k2) => Found(k1, enqueued[1].Value)

\* Position in enqueued of the last command of this run for the key (0
\* when this run enqueued none).
LastOf(key) ==
    LET at == {i \in 1..Len(enqueued) :
                  enqueued[i].Key = key /\ enqueued[i].run = runs}
    IN  IF at = {} THEN 0 ELSE CHOOSE j \in at : \A i \in at : i <= j

\* C7: when Shutdown has returned, FlushLog has appended a record for every
\* command of this run, and index_file.json reflects each key's last
\* command: after a Put the key's offset is the offset of a record with the
\* key and the value, after a Del the file has no entry for the key.
C7_ShutdownDurability ==
    pcEng = "closed" =>
        /\ \A i \in 1..Len(enqueued) :
               enqueued[i].run = runs => InLog(enqueued[i].id)
        /\ \A key \in Keys :
               LastOf(key) # 0 =>
                   IF enqueued[LastOf(key)].Type = PUT_COMMAND
                   THEN /\ key \in DOMAIN ckpt.keyOffsets
                        /\ ReadKvItem(log, ckpt.keyOffsets[key])
                               = [err |-> FALSE, key |-> key,
                                  value |-> enqueued[LastOf(key)].Value]
                   ELSE key \notin DOMAIN ckpt.keyOffsets

\* C8: with the workers scheduled fairly, a Put or Del blocked in its
\* channel send returns, and a Shutdown that waits for the acknowledgement
\* returns.
C8_NoDeadlock ==
    /\ (pcEng = "send") ~> (pcEng = "idle")
    /\ (pcEng = "wait") ~> (pcEng = "closed")

\* Shutdown has returned in the first run after more commands than either
\* queue holds went through both workers.
C8_Witness ==
    /\ pcEng = "closed" /\ runs = 1
    /\ Len(appended) > LOG_FLUSH_THRESHOLD
    /\ Len(appended) > INDEX_FLUSH_THRESHOLD

\* C9: index_file.json changes only in the rename step of FlushIndex, and
\* the rename installs the complete swap file that WriteIndex wrote from
\* FlushIndex's index; a crash at any point leaves the file as it was.
C9_CheckpointAtomic ==
    [][ckpt' # ckpt =>
          /\ pcIdx = "rename"
          /\ swap.whole
          /\ ckpt' = swap
          /\ ckpt' = StoreWriteIndex(indexCacheCopy)]_vars

\* The process was killed after the swap file was written and before the
\* rename, with an earlier checkpoint in place.
C9_Witness ==
    /\ pcEng = "crashed"
    /\ swap.whole
    /\ ckpt.exists /\ ckpt.whole
    /\ swap # ckpt

\* The command numbers of the log records are in increasing order.
RECURSIVE Increasing(_)
Increasing(ids) ==
    \/ Len(ids) < 2
    \/ ids[1] < ids[2] /\ Increasing(Tail(ids))

\* C10: the records are appended to the data log in the order in which the
\* single caller thread enqueued their commands, also within one batch.
C10_LogOrder == Increasing(appended)

\* Number of appends to the data log for the command with this number.
AppendsFor(id) == Cardinality({i \in 1..Len(appends) : appends[i].id = id})

\* C11: no Put command has more than one record appended for it, every
\* append to the data log is made by FlushLog and none by the thread that
\* called Put, and when Shutdown has returned every Put of the run has
\* exactly one record.
C11_AppendOnce ==
    /\ \A i \in 1..Len(appends) : appends[i].by = "FlushLog"
    /\ \A i \in 1..Len(enqueued) :
           enqueued[i].Type = PUT_COMMAND =>
               /\ AppendsFor(enqueued[i].id) <= 1
               /\ (pcEng = "closed" /\ enqueued[i].run = runs)
                      => AppendsFor(enqueued[i].id) = 1

\* C12: the offset that an append returns is the byte at which this append
\* wrote its record, also when a Put call and FlushLog append at the same
\* time.
C12_AppendOffset ==
    \A i \in 1..Len(appends) :
        appends[i].offset # NoOffset => appends[i].offset = appends[i].at

\* C13: of two appends to the data log that have returned, the later one
\* returned the greater offset.
C13_OffsetMonotone ==
    \A i, j \in 1..Len(appends) :
        (i < j /\ appends[i].offset # NoOffset /\ appends[j].offset # NoOffset)
            => appends[i].offset < appends[j].offset

\* Three appends have returned, a Put record and a Del record among them.
C13_Witness ==
    /\ Len(appends) = MaxCmds
    /\ \A i \in 1..Len(appends) : appends[i].offset # NoOffset
    /\ \E i, j \in 1..Len(enqueued) :
           enqueued[i].Type = PUT_COMMAND /\ enqueued[j].Type = DEL_COMMAND

C14_RecoveryIdempotentLists ==
    [][Reopen =>
           /\ log' = log /\ ckpt' = ckpt
           /\ LoadIndex(EmptyCache, log', ckpt').cache = IndexCache']_vars

Absent(key) == model[key].st \in {"none", "del"}

\* The command at position i of enqueued is a Del of a key that was absent
\* when Del was called.
AbsentDel(i) ==
    /\ enqueued[i].Type = DEL_COMMAND
    /\ \A j \in 1..(i - 1) :
           (enqueued[j].Key = enqueued[i].Key /\ enqueued[j].Type = PUT_COMMAND)
               => \E m \in (j + 1)..(i - 1) :
                      /\ enqueued[m].Key = enqueued[i].Key
                      /\ enqueued[m].Type = DEL_COMMAND

\* C15: a Del of an absent key leaves the value cache, the index and the
\* data log as they are, and no flush appends a record for it.
C15_DelAbsentNoOp ==
    [][/\ \A key \in Keys :
              (Absent(key) /\ (Del(key) \/ (DelAdd /\ newOffsets.key = key)))
                  => UNCHANGED <<Cache, IndexCache, log>>
       /\ \A i \in 1..Len(enqueued') :
              AbsentDel(i)' => ~InLog(enqueued[i].id)']_vars

\* C16: a Put, Get or Del called after Shutdown has returned does not end
\* the process (it returns an error value to its caller).
C16_ClosedError == pcEng = "closed" => ~exited

\* C17: when the store is constructed again after Shutdown has returned, a
\* key whose last call is a Put of the empty value is found, and Get
\* returns the empty string for it.
C17_EmptyValueSurvives ==
    [][(pcEng = "closed" /\ StoreReopen) =>
           \A key \in Keys :
               (model[key].st = "put" /\ model[key].v = Empty)
                   => /\ StoreGetResult(key)'.ok
                      /\ StoreGetResult(key)'.value = Empty]_vars

\* C18: the construction of the store on a data log with a malformed record
\* does not end the process, and the index it yields is the index of the
\* records before the first malformed one.
C18_CorruptStopsReplay ==
    [][StoreReopen =>
           /\ ~exited'
           /\ IndexCache' =
                  StoreLoadIndex(EmptyCache, GoodPrefix(log, 0), ckpt).cache]_vars

\* C19: FlushIndex comes to its send on done only from the rename of the
\* checkpoint it wrote after its receive found indexBuffer closed and empty,
\* and once the acknowledgement is sent it sends no other in this run.
C19_AckOnce ==
    [][/\ (pcIdx # "ack" /\ pcIdx' = "ack") =>
              /\ pcIdx = "rename" /\ ~idxOk
              /\ indexClosed /\ indexBufferChannel = <<>>
              /\ swap.whole /\ ckpt' = swap
       /\ (pcIdx = "ack" /\ pcIdx' # "ack") => pcIdx' = "done"
       /\ (pcIdx = "done" /\ runs' = runs) => pcIdx' = "done"]_vars

\* The acknowledgement has been sent and received after a final checkpoint
\* with entries.
C19_Witness ==
    /\ pcEng = "closed" /\ pcIdx = "done"
    /\ ckpt.whole /\ ckpt.keyOffsets # EmptyCache
    /\ indexClosed

\* Every command that was enqueued has been appended by FlushLog and its
\* KvPair has gone through a flush of FlushIndex; no batch is open.
Quiescent ==
    /\ ~exited /\ pcEng \notin {"send", "remove"}
    /\ \A i \in 1..Len(enqueued) : InLog(enqueued[i].id)
    /\ logBufferChannel = <<>> /\ commands = <<>>
    /\ indexBufferChannel = <<>> /\ pairs = <<>>
    /\ pcIdx \in {"recv", "ack", "done"}

\* The bucket of the key's partial key holds an offset of a record of the key.
Indexed(key) ==
    /\ CacheGetOk(IndexCache, getPartialKey(key))
    /\ \E i \in 1..Len(IndexCache[getPartialKey(key)]) :
           LET item == ReadKvItem(log, IndexCache[getPartialKey(key)][i])
           IN  ~item.err /\ item.key = key

\* C20: at quiescence every key whose last command is a Put has, in the
\* bucket of its partial key, an offset whose record has the key.
C20_LiveKeysIndexed ==
    Quiescent => \A key \in Keys : model[key].st = "put" => Indexed(key)

\* C21: when a Del(k1) stores the bucket of its partial key while the flush
\* pipeline has added the offset of a record of k2 to that bucket, k1 and k2
\* distinct keys of one bucket, the bucket still holds an offset of a record
\* of k2 after the Del.
C21_DelKeepsOtherKey ==
    [][DelAdd =>
           \A k2 \in Keys :
               (Collide(newOffsets.key, k2) /\ Indexed(k2)) => Indexed(k2)']_vars

\* flushLock is write-locked by FlushLog (between Lock and Unlock of its
\* first loop), or by another holder.
LockedByFlushLog == flushLock /\ pcLog = "puts"
LockedByFlushIndex == flushLock /\ ~LockedByFlushLog

\* C22: FlushIndex takes every step of its index update and checkpoint swap
\* with flushLock write-locked by itself, and every step of FlushLog or
\* FlushIndex that changes the index is taken with flushLock write-locked,
\* so that no read-locked lookup of Get runs between the steps.
C22_IndexUnderWriteLock ==
    [][/\ (IdxLoad \/ IdxWrite \/ IdxRename) => LockedByFlushIndex
       /\ ((FlushLog \/ FlushIndex) /\ IndexCache' # IndexCache) => flushLock]_vars

\* No record of the key.
NoRecord == [found |-> FALSE, value |-> Empty, offset |-> 0]

\* The last record of the data log, from byte pos on, that has the key, with
\* the byte offset at which it starts (`last` when there is none).
RECURSIVE LastRecord(_, _, _, _)
LastRecord(file, pos, key, last) ==
    LET r == CsvRead(file, pos)
    IN  IF r.eof THEN last
        ELSE LastRecord(file, r.next, key,
                        IF Len(r.record) >= 2 /\ r.record[1] = key
                        THEN [found |-> TRUE, value |-> r.record[2],
                              offset |-> SkipBlank(file, pos + 1) - 1]
                        ELSE last)

\* C23: at quiescence the value cache holds an entry (k,v) only if the last
\* record of k in the data log is a live record with the value v, whatever
\* the order of the Put and Del calls of a batch.
C23_CacheMatchesLog ==
    Quiescent =>
        \A key \in Keys :
            CacheGetOk(Cache, key) =>
                LET last == LastRecord(log, 0, key, NoRecord)
                IN  last.found /\ last.value # Empty /\ last.value = Cache[key]

\* The byte offsets of the records that the loop of LoadIndexData reads
\* when the csv reader starts at readPos.
RECURSIVE StoreReplayed(_, _)
StoreReplayed(file, readPos) ==
    LET r == CsvRead(file, readPos)
    IN  IF r.eof \/ Len(r.record) < RecordFields THEN {}
        ELSE {SkipBlank(file, readPos + 1) - 1} \cup StoreReplayed(file, r.next)

\* C24: the construction of the store on a checkpoint with entries replays
\* only records of the data log that start after the checkpoint's
\* lastOffset; the record at lastOffset is not read again.
C24_ReplayAfterLastOffset ==
    [][(StoreReopen /\ fileExists(ckpt) /\ ckpt.keyOffsets # EmptyCache) =>
           \A offset \in StoreReplayed(log, ckpt.lastOffset) :
               offset > ckpt.lastOffset]_vars

\* The offset at which LoadIndex starts the replay of the data log.
ReplayStart == IF fileExists(ckpt) THEN ckpt.lastOffset ELSE 0

\* C25: after the construction of the store, a key whose last record at or
\* after the checkpoint's lastOffset is a live record has, as its index
\* entry, the byte offset of that record from the start of the data log
\* (NewKvStore of src/store/kvstore.go).
C25_ReplayAbsoluteOffset ==
    [][(StoreReopen /\ ~exited') =>
           \A key \in Keys :
               LET last == LastRecord(log, ReplayStart, key, NoRecord)
               IN  (last.found /\ last.value # Empty) =>
                       /\ CacheGetOk(IndexCache', key)
                       /\ IndexCache'[key] = last.offset]_vars

\* C25, for NewKvStore of part_003 (checked under Spec): the bucket of the
\* key holds the byte offset of that record.
C25_ReplayAbsoluteOffsetLists ==
    [][(Reopen /\ ~exited') =>
           \A key \in Keys :
               LET last == LastRecord(log, ReplayStart, key, NoRecord)
               IN  (last.found /\ last.value # Empty) =>
                       /\ CacheGetOk(IndexCache', getPartialKey(key))
                       /\ \E i \in 1..Len(IndexCache'[getPartialKey(key)]) :
                              IndexCache'[getPartialKey(key)][i] = last.offset]_vars

\* The last record of the key in the data log is a tombstone / a live record.
TombLast(key) ==
    LET last == LastRecord(log, 0, key, NoRecord)
    IN  last.found /\ last.value = Empty
LiveLast(key) ==
    LET last == LastRecord(log, 0, key, NoRecord)
    IN  last.found /\ last.value # Empty

\* C26: after a construction of the store that replays the whole data log, a
\* key whose last record is a tombstone has no offset of a record of the key
\* in the bucket of its partial key, and a key of the same bucket whose last
\* record is live still has one.
C26_TombstoneRemovesFullKey ==
    [][(Reopen /\ ~exited' /\ ReplayStart = 0) =>
           \A k1 \in Keys :
               TombLast(k1) =>
                   /\ ~Indexed(k1)'
                   /\ \A k2 \in Keys :
                          (Collide(k1, k2) /\ LiveLast(k2)) => Indexed(k2)']_vars

\* The offsets of the live pairs of a batch (the zero pair that a closed
\* channel yields has the empty key and is not one of them).
LiveOffsets(ps) ==
    {ps[i].Offset : i \in {j \in 1..Len(ps) : ~ps[j].Tomb /\ ps[j].Key # Empty}}

\* The largest offset among the live pairs, or prev when there is none.
MaxLiveOffset(prev, ps) ==
    IF LiveOffsets(ps) = {} THEN prev
    ELSE CHOOSE m \in LiveOffsets(ps) : \A o \in LiveOffsets(ps) : o <= m

\* C27: the lastOffset of the checkpoint that FlushIndex writes is the
\* largest offset among the live pairs of its batch, or the lastOffset of
\* the checkpoint in place when the batch has no live pair (FlushIndex of
\* src/store/kvstore.go).
C27_LastOffsetOfBatch ==
    [][StoreIdxWrite =>
           swap'.lastOffset = MaxLiveOffset(ckpt.lastOffset, pairs)]_vars

\* C27, for FlushIndex of part_003 (checked under Spec).
C27_LastOffsetOfBatchLists ==
    [][IdxWrite =>
           swap'.lastOffset = MaxLiveOffset(ckpt.lastOffset, pairs)]_vars

\* C28: in the first run of the store on a directory, where every checkpoint
\* in place was written by this run, the rename of a new checkpoint never
\* installs a smaller lastOffset than the one of the checkpoint it replaces.
C28_LastOffsetMonotone ==
    [][(IdxRename /\ runs = 1 /\ fileExists(ckpt)) =>
           ckpt'.lastOffset >= ckpt.lastOffset]_vars

\* Number of appends that FlushLog made for the command with this number.
FlushAppendsFor(id) ==
    Cardinality({i \in 1..Len(appends) :
                    appends[i].id = id /\ appends[i].by = "FlushLog"})

\* C29: FlushLog appends a record to the data log only while its batch holds
\* exactly LOG_FLUSH_THRESHOLD commands or its receive found the command
\* channel closed; at the end of a flush it has appended one record for each
\* Put or Del command of the batch, none for anything else, and the batch
\* is emptied.
C29_FlushAtThreshold ==
    [][/\ (Len(appends') > Len(appends)
            /\ appends'[Len(appends')].by = "FlushLog")
              => \/ Len(commands) = LOG_FLUSH_THRESHOLD
                 \/ ~logOk /\ logClosed
       /\ (LogFinish \/ StoreLogFinish) =>
              /\ commands' = <<>>
              /\ \A i \in 1..Len(commands) :
                     FlushAppendsFor(commands[i].id) =
                         IF commands[i].Type \in {PUT_COMMAND, DEL_COMMAND}
                         THEN 1 ELSE 0]_vars

\* FlushLog has finished: the first batch was flushed when it was full, the
\* rest when the channel was closed, with a Put and a Del among the commands.
C29_Witness ==
    /\ pcLog = "done" /\ runs = 1 /\ ~exited
    /\ Len(appends) = MaxCmds /\ MaxCmds > LOG_FLUSH_THRESHOLD
    /\ \E i, j \in 1..Len(enqueued) :
           enqueued[i].Type = PUT_COMMAND /\ enqueued[j].Type = DEL_COMMAND

\* The offset is the start of a record of the key with the value of the
\* key's last Put, and no Del of the key was called after that Put.
PointsAtLatest(key, offset) ==
    /\ key \in Keys
    /\ model[key].st = "put"
    /\ ReadKvItem(log, offset)
           = [err |-> FALSE, key |-> key, value |-> model[key].v]

\* C30: when every enqueued command has gone through FlushLog and FlushIndex
\* and no call is in progress, FlushIndex's index and the index that Get
\* uses have the same keys, and the offset of each key in either of them is
\* the start of a record with the key and its latest value.
C30_ShadowMirrorsLive ==
    (Quiescent /\ pcEng \in {"idle", "closed"}) =>
        /\ DOMAIN IndexCache = DOMAIN indexCacheCopy
        /\ \A key \in DOMAIN IndexCache :
               /\ PointsAtLatest(key, IndexCache[key])
               /\ PointsAtLatest(key, indexCacheCopy[key])

\* C30, for the first run of the store and as long as every append has
\* returned the offset at which it wrote (see C12).
C30_ShadowMirrorsLiveFirstRun ==
    (runs = 1 /\ C12_AppendOffset) => C30_ShadowMirrorsLive

\* The offsets of the sequence do not go down.
Ascending(offsets) ==
    \A i, j \in 1..Len(offsets) : i < j => offsets[i] <= offsets[j]

\* C31: in index_file.json the offsets listed under each partial key are in
\* the order of the data log, none smaller than one before it.
C31_CheckpointLogOrder ==
    fileExists(ckpt) =>
        \A partialKey \in DOMAIN ckpt.keyOffsets :
            Ascending(ckpt.keyOffsets[partialKey])

\* C32: no bucket of the live index holds two offsets whose records have
\* the same full key.
C32_OneOffsetPerKey ==
    \A partialKey \in DOMAIN IndexCache :
        \A i, j \in 1..Len(IndexCache[partialKey]) :
            i < j => ReadKvItem(log, IndexCache[partialKey][i]).key
                         # ReadKvItem(log, IndexCache[partialKey][j]).key

\* The offsets of the items of a bucket, in the order of the bucket.
OffsetsOf(bucket) == [i \in 1..Len(bucket) |-> bucket[i].offset]

\* The positions of the bucket whose item is of a record added with the key.
ItemsOfKey(bucket, key) ==
    {i \in 1..Len(bucket) :
        \E a \in 1..Len(added) :
            added[a].offset = bucket[i].offset /\ added[a].key = key}

\* The value of the record added at the offset.
ValueAt(offset) ==
    LET a == CHOOSE i \in 1..Len(added) : added[i].offset = offset
    IN  added[a].value

\* C33: when a bucket of the index holds the items of several records of one
\* full key, the scan of the bucket that matches on the full key (ReadGet)
\* returns the value of the most recently written of those records.
C33_DuplicatesReadLatest ==
    \A key \in IndexKeys :
        LET bucket == LocalIndexGet(indexItems, key).indexItems
            same == ItemsOfKey(bucket, key)
        IN  Cardinality(same) >= 2 =>
                LET latest == CHOOSE i \in same :
                                  \A j \in same : bucket[j].offset <= bucket[i].offset
                IN  ReadGet(dataLogFile, key, OffsetsOf(bucket))
                        = [ok |-> TRUE, value |-> ValueAt(bucket[latest].offset)]


\* C34: after Index.Del(key) in which no log read failed, the bucket of the
\* partial key holds no item of a record of the key, and holds each item of
\* the other keys that it held before exactly once.
C34_DelRemovesKey ==
    LET key == indexCall.key
        before == Bucket(indexCall.before, getPartialKey(key))
        after == Bucket(indexItems, getPartialKey(key))
    IN  (/\ indexCall.op = "Del"
         /\ ~DelReadFailed(revision, dataLogFile, key, before, 1))
            => /\ ItemsOfKey(after, key) = {}
               /\ \A i \in (1..Len(before)) \ ItemsOfKey(before, key) :
                      Cardinality({j \in 1..Len(after) : after[j] = before[i]}) = 1

\* C35: after Index.Put(item), Get of a key of the item's partial key
\* returns the bucket of before the call with the item appended at its end,
\* and the buckets of the other partial keys are as before the call.
C35_PutAppends ==
    LET partialKey == indexCall.item.partialKey
    IN  indexCall.op = "Put"
            => /\ LocalIndexGet(indexItems, indexCall.key)
                      = [ok |-> TRUE,
                         indexItems |-> Append(Bucket(indexCall.before, partialKey),
                                               indexCall.item)]
               /\ DOMAIN indexItems \ {partialKey}
                      = DOMAIN indexCall.before \ {partialKey}
               /\ \A other \in DOMAIN indexItems \ {partialKey} :
                      indexItems[other] = indexCall.before[other]

\* The same for the builds with the Put of part_000.
C35_PutAppendsPart000 ==
    revision.index = "part_000" => C35_PutAppends

\* C36: Index.Get(key) reports the key present exactly when the bucket of
\* its partial key holds at least one item; in particular not after Del has
\* removed the last item of the bucket.
C36_PresentIffNonEmpty ==
    \A key \in IndexKeys :
        LocalIndexGet(indexItems, key).ok
            <=> Len(Bucket(indexItems, getPartialKey(key))) >= 1

\* The number of items of the index for the record added as a.
ItemsFor(items, a) ==
    Cardinality({i \in 1..Len(Bucket(items, getPartialKey(a.key))) :
                    Bucket(items, getPartialKey(a.key))[i].offset = a.offset})

\* C37: Index.Load ends, and it creates exactly one item, with the offset of
\* the record, for each record of the log from its start offset to the end
\* of the file, records with an empty value included.
C37_LoadIndexesEachRecord ==
    indexCall.op = "Load"
        => /\ indexCall.done
           /\ \A a \in 1..Len(added) :
                  added[a].offset >= indexCall.offset
                      => ItemsFor(indexItems, added[a])
                             = ItemsFor(indexCall.before, added[a]) + 1

\* C38: ReadLogItem at an offset reports the end of the data (io.EOF)
\* exactly when the offset is at or after the size of the file, and at the
\* start of a record it returns the key, the value and the size of the record.
C38_ReadLogItem ==
    indexCall.op = "ReadLogItem"
        => /\ indexCall.logItem.err = "EOF"
                  <=> indexCall.offset >= Len(dataLogFile)
           /\ \A a \in 1..Len(added) :
                  added[a].offset = indexCall.offset
                      => /\ indexCall.logItem.err = "nil"
                         /\ indexCall.logItem.key = added[a].key
                         /\ indexCall.logItem.value = added[a].value
                         /\ indexCall.logItem.size = added[a].size

\* The same for the builds with the ReadLogItem of src/index/datalog.go.
C38_ReadLogItemDatalog ==
    revision.dataLog = "datalog.go" => C38_ReadLogItem

\* The part of C38 on records, for the ReadLogItem of src/index/datalog.go.
C38_ReadsRecordDatalog ==
    (revision.dataLog = "datalog.go" /\ indexCall.op = "ReadLogItem")
        => \A a \in 1..Len(added) :
               added[a].offset = indexCall.offset
                   => /\ indexCall.logItem.err = "nil"
                      /\ indexCall.logItem.key = added[a].key
                      /\ indexCall.logItem.value = added[a].value
                      /\ indexCall.logItem.size = added[a].size

\* C39: every offset that the live index holds is smaller than the size of
\* the data log file, in every state: after recovery, after each flush of
\* the log and after each flush of the checkpoint.
C39_OffsetsInsideLog ==
    \A partialKey \in DOMAIN IndexCache :
        \A i \in 1..Len(IndexCache[partialKey]) :
            IndexCache[partialKey][i] < Len(log)

\* The same for the index of src/store/kvstore.go, one offset for a key.
C39_OffsetsInsideLogStore ==
    \A key \in DOMAIN IndexCache : IndexCache[key] < Len(log)

\* A store that was recovered with a checkpoint on disk and whose index
\* holds an offset of a record after the first one.
C39_Witness ==
    /\ runs > 1 /\ pcEng = "idle" /\ ~exited
    /\ fileExists(ckpt)
    /\ \E partialKey \in DOMAIN IndexCache :
           \E i \in 1..Len(IndexCache[partialKey]) :
               IndexCache[partialKey][i] > 0

====
